---- MODULE Spec2Model ----
(***************************************************************************)
(* Attendance counting and reconciliation of BunkStop.                     *)
(*                                                                         *)
(* Storage holds two tables: attendance (the ledger of log rows) and       *)
(* attendance_totals (one counter row per student and subject).  Views are *)
(* open pages of the application: the Dashboard in its two source variants *)
(* (DashA: insert the log row, then write count = local count + 1; DashB:  *)
(* the increment_attendance_total RPC followed by an optimistic patch) and *)
(* the Profile page (delete_log_and_decrement RPC).  Every await of a      *)
(* handler is a point where the steps of other views interleave.           *)
(***************************************************************************)
EXTENDS Integers, Sequences, FiniteSets, TLC

VARIABLES
    attendance,         \* table attendance: set of [id, student_id, subject]
    attendance_totals,  \* table attendance_totals: set of [student_id, subject, count, total]
    nextId,             \* next generated log id
    kind,               \* view -> "DashA" | "DashB" | "Profile" (which page is open)
    user,               \* view -> authenticated student of the view
    rows,               \* view -> local TotalsRow sequence (rows / totalsRows)
    attendanceRecords,  \* view -> Profile's local log list, newest first
    selectedSubject,    \* view -> subject of the mark dialog, or NoSubject
    isModalOpen,        \* view -> mark dialog open
    saving,             \* view -> busy flag of handleConfirmMark
    totalsRow,          \* view -> the row DashA's handler captured when it started
    selectedRecord,     \* view -> record chosen for deletion, or NoRecord
    deleteDialogOpen,   \* view -> delete dialog open
    pc,                 \* view -> position of the view's running handler
    toast,              \* the toast the last step showed: <<view, handler, title, description>>
    pending,            \* view -> a realtime notification waits to run its fetch
    prior,              \* history: <<attendance, attendance_totals>> before the last step
    call,               \* history: the storage call the last step issued, "" if none
    trip,               \* history: the latest mark whose writes no other write interleaved
    profiles,           \* table profiles: set of [user_id, name, selected_subjects]
    name,               \* view -> Profile's local name
    catalog,            \* view -> Profile's local list of catalog codes
    editOpen,           \* view -> Edit Total dialog open
    editingSubject,     \* view -> subject of the Edit Total dialog, or NoSubject
    editingTotalValue,  \* view -> content of the Edit Total input
    editSaving,         \* view -> busy flag of saveEditTotal
    addSubject,         \* view -> Profile's chosen subject to add, "" if none
    addTotal,           \* view -> content of Profile's "total" input of the add form
    adding,             \* view -> busy flag of handleAddSubject
    nextSubjects,       \* view -> the subject list handleAddSubject computed for the profile
    issued,             \* history: view -> the writes its running handler has issued
    loading,            \* Auth page: busy flag of handleSubmit
    authPc,             \* Auth page: position of the running handleSubmit
    isLogin,            \* Auth page: sign-in mode (else sign-up)
    authName,           \* Auth page: content of the name input
    chosen,             \* Auth page: chosen subjects, a sequence of [code, total]
    subjectsLocked,     \* Auth page: subject selection is locked
    pendingSetup,       \* localStorage[PENDING_KEY]: <<>> or <<[name, codes, totals]>>
    route,              \* the route the browser of the Auth page shows
    authUser,           \* the user of that browser's session, "" if none
    authKind,           \* "AuthA" | "AuthB" (which variant of the Auth page is built)
    effectDue,          \* Auth page: its [user] effects have not run for the present user
    runs,               \* the running onboarding effects: a sequence of [uid, data, pc]
    onboard             \* history: the account of the last sign-up and the writes of its data

vars == <<attendance, attendance_totals, nextId, kind, user, rows,
          attendanceRecords, selectedSubject, isModalOpen, saving, totalsRow,
          selectedRecord, deleteDialogOpen, pc, toast, pending, prior, call, trip,
          profiles, name, catalog, editOpen, editingSubject, editingTotalValue, editSaving,
          addSubject, addTotal, adding, nextSubjects, issued, loading, authPc,
          isLogin, authName, chosen, subjectsLocked, pendingSetup, route, authUser,
          authKind, effectDue, runs, onboard>>

\* the state of the Auth page and of its browser
authVars == <<loading, authPc, isLogin, authName, chosen, subjectsLocked,
              pendingSetup, route, authUser, authKind, effectDue, runs, onboard>>

\* the onboarding effect of the Auth page and the history of the sign-up
effectVars == <<authKind, effectDue, runs, onboard>>

\* the state of the Edit Total dialog and of Profile's add-subject form
formVars == <<editOpen, editingSubject, editingTotalValue, editSaving,
              addSubject, addTotal, adding, nextSubjects>>

storage == <<attendance, attendance_totals>>

(***************************************************************************)
(* Bounds of the model.                                                    *)
(***************************************************************************)
MaxLogs == 2        \* log rows ever inserted
MaxTotal == 1       \* the total of a capped subject (0 is no cap)

(***************************************************************************)
(* Reference data.                                                         *)
(***************************************************************************)
Catalog == <<"ADA", "CN">>                \* subject codes, ascending
Subjects == {Catalog[i] : i \in 1..Len(Catalog)}
Students == {"u1", "u2"}            \* u1 has chosen subjects, u2 has none yet
Views == {"v1", "v2"}
Kinds == {"DashA", "DashB", "Profile"}

\* outcomes of a storage call the model injects: TRUE = served, FALSE =
\* rejected (StorageUnavailable).  A rejected read of DashB or Profile only
\* leaves the view as stale as a late notification does, so it is not injected.
WriteOutcomes == BOOLEAN
ReadOutcomesA == BOOLEAN
ReadOutcomes == {TRUE}

\* which pages the two views show (the views are interchangeable)
KindChoices ==
    {[v1 |-> "DashA", v2 |-> "DashA"], [v1 |-> "DashA", v2 |-> "DashB"],
     [v1 |-> "DashA", v2 |-> "Profile"], [v1 |-> "DashB", v2 |-> "DashB"],
     [v1 |-> "DashB", v2 |-> "Profile"], [v1 |-> "Profile", v2 |-> "Profile"]}

NoSubject == "null"
NoRecord == [id |-> 0, subject |-> NoSubject]
NoTotalsRow == [subject |-> NoSubject, count |-> 0, total |-> 0]
NoToast == <<"", "", "", "">>
NoTrip == [view |-> "", id |-> 0, subject |-> NoSubject, count |-> 0, ledger |-> {},
           stage |-> "none"]
\* no sign-up has succeeded: no account, no write of onboarding data
NoSignup == [owner |-> "", immediate |-> 0, deferred |-> 0]
AuthKinds == {"AuthA", "AuthB"}


(***************************************************************************)
(* Views and their local rows.                                             *)
(***************************************************************************)
Min(a, b) == IF a <= b THEN a ELSE b
Max(a, b) == IF a >= b THEN a ELSE b

\* rowsBySubject: lookup of a subject in a local TotalsRow sequence
HasRow(rs, s) == \E i \in 1..Len(rs) : rs[i].subject = s
RowOf(rs, s) == rs[CHOOSE i \in 1..Len(rs) : rs[i].subject = s]

\* a cap test that lets the mark at count = total through
AtCapStrict(r) == r.total > 0 /\ r.count > r.total

\* the cap test of openMarkModal and handleConfirmMark
AtCap(r) == r.total > 0 /\ r.count >= r.total

(***************************************************************************)
(* Storage: queries.                                                       *)
(***************************************************************************)
TotalsOf(uid) == {r \in attendance_totals : r.student_id = uid}
LogsOf(uid) == {l \in attendance : l.student_id = uid}
HasTotals(uid, s) == \E r \in attendance_totals : r.student_id = uid /\ r.subject = s
StoredRow(uid, s) == CHOOSE r \in attendance_totals : r.student_id = uid /\ r.subject = s
LogCount(uid, s) == Cardinality({l \in attendance : l.student_id = uid /\ l.subject = s})

\* a query whose rows come back in descending subject order
QueryTotalsDescending(uid) ==
    LET present == SelectSeq(Catalog, LAMBDA s : HasTotals(uid, s))
        n == Len(present)
    IN  [i \in 1..n |->
            [subject |-> present[n + 1 - i],
             count |-> StoredRow(uid, present[n + 1 - i]).count,
             total |-> StoredRow(uid, present[n + 1 - i]).total]]

\* select subject, count, total ... eq student_id ... order by subject ascending
QueryTotals(uid) ==
    LET present == SelectSeq(Catalog, LAMBDA s : HasTotals(uid, s))
    IN  [i \in 1..Len(present) |->
            [subject |-> present[i],
             count |-> StoredRow(uid, present[i]).count,
             total |-> StoredRow(uid, present[i]).total]]

\* select id, subject, date, note ... eq student_id ... order by date descending
\* (date defaults to the insertion time, so ids and dates order alike)
QueryLogs(uid) ==
    LET S == LogsOf(uid)
    IN  [i \in 1..Cardinality(S) |->
            LET l == CHOOSE l \in S : Cardinality({q \in S : q.id > l.id}) = i - 1
            IN  [id |-> l.id, subject |-> l.subject]]

(***************************************************************************)
(* Storage: writes issued from the client (table API).                     *)
(***************************************************************************)
\* from('attendance').insert({student_id, subject, note})
InsertLog(uid, s) ==
    attendance \cup {[id |-> nextId, student_id |-> uid, subject |-> s]}

\* an update of count that is filtered by subject only
UpdateCountAll(uid, s, c) ==
    {IF r.subject = s THEN [r EXCEPT !.count = c] ELSE r : r \in attendance_totals}

\* an update of count that is filtered by student only
UpdateCountEvery(uid, s, c) ==
    {IF r.student_id = uid THEN [r EXCEPT !.count = c] ELSE r : r \in attendance_totals}

\* from('attendance_totals').update({count}).eq(student_id).eq(subject)
UpdateCount(uid, s, c) ==
    {IF r.student_id = uid /\ r.subject = s THEN [r EXCEPT !.count = c] ELSE r
        : r \in attendance_totals}

\* a step 2 that counts down
NewCountDown(tr) == tr.count - 1

\* step 2 of DashA's handleConfirmMark: the count it writes
NewCount(tr) == tr.count + 1

(***************************************************************************)
(* Storage: server-side procedures.                                        *)
(***************************************************************************)
\* increment_attendance_total(p_subject, p_note): error of the call, "" if none
IncrementError(uid, s) == IF HasTotals(uid, s) THEN "" ELSE "NotConfigured"
\* ... its effect on attendance_totals: count = count + 1 in one statement
IncrementTotals(uid, s) ==
    {IF r.student_id = uid /\ r.subject = s THEN [r EXCEPT !.count = r.count + 1] ELSE r
        : r \in attendance_totals}

\* delete_log_and_decrement(p_id): error of the call, "" if none
DeleteError(uid, id) ==
    IF \E l \in attendance : l.id = id /\ l.student_id = uid THEN "" ELSE "NotFound"
\* ... its effect on attendance
DeleteLog(uid, id) == {l \in attendance : ~(l.id = id /\ l.student_id = uid)}
\* ... its effect on attendance_totals: count = count - 1, floored at 0
DecrementTotals(uid, s) ==
    {IF r.student_id = uid /\ r.subject = s
        THEN [r EXCEPT !.count = Max(r.count - 1, 0)] ELSE r
        : r \in attendance_totals}

(***************************************************************************)
(* Realtime subscriptions: which views refetch on a change of a table.     *)
(***************************************************************************)
\* DashA: attendance_totals '*'; DashB: attendance_totals '*', attendance
\* INSERT; Profile: attendance_totals '*', attendance '*'
Subscribed(v, uid, table, event) ==
    /\ user[v] = uid
    /\ \/ table = "attendance_totals"
       \/ table = "attendance" /\ kind[v] = "Profile"
       \/ table = "attendance" /\ kind[v] = "DashB" /\ event = "INSERT"

\* pending after the change events in evs (a set of <<table, event>>) of uid's rows
Notify(uid, evs) ==
    [v \in Views |-> pending[v] \/ \E e \in evs : Subscribed(v, uid, e[1], e[2])]

(***************************************************************************)
(* History variables.                                                      *)
(***************************************************************************)
\* stored count of a subject, -1 when the student has no totals row for it
CountOf(uid, s) == IF HasTotals(uid, s) THEN StoredRow(uid, s).count ELSE -1

\* a step that writes nothing keeps the tracked mark; the two final stages
\* are visible in the state right after the step that reached them only
TripKept == IF trip.stage \in {"failed", "deleted"} THEN NoTrip ELSE trip

\* the mark of view v starts: its log row is inserted
TripStarted(v, stage) ==
    [view |-> v, id |-> nextId, subject |-> selectedSubject[v],
     count |-> CountOf(user[v], selectedSubject[v]), ledger |-> attendance,
     stage |-> stage]

(***************************************************************************)
(* Initial state: the pages have just been mounted (empty local state, the *)
(* initial fetch not yet run); storage holds the totals rows onboarding    *)
(* created and the ledger of earlier sessions, each row counted and no     *)
(* subject marked beyond its total.                                        *)
(***************************************************************************)
InitStorage ==
    \E C \in SUBSET Subjects : \E tot \in [C -> {0, MaxTotal}] :
    \E k \in 0..MaxLogs : \E f \in [1..k -> C] :
        /\ \A s \in C : tot[s] > 0 => Cardinality({i \in 1..k : f[i] = s}) <= tot[s]
        /\ attendance = {[id |-> i, student_id |-> "u1", subject |-> f[i]] : i \in 1..k}
        /\ nextId = k + 1
        /\ attendance_totals =
              {[student_id |-> "u1", subject |-> s,
                count |-> Cardinality({i \in 1..k : f[i] = s}), total |-> tot[s]] : s \in C}
        /\ profiles = {[user_id |-> "u1", name |-> "Asha", selected_subjects |-> C,
                   onboarding_complete |-> TRUE]}

\* the Auth page after mount, in a browser without a session
InitAuth ==
    /\ loading = FALSE
    /\ authPc = "idle"
    /\ isLogin = TRUE
    /\ authName = ""
    /\ chosen = <<>>
    /\ subjectsLocked = FALSE
    /\ pendingSetup = <<>>
    /\ route = "/auth"
    /\ authUser = ""
    /\ effectDue = FALSE
    /\ runs = <<>>
    /\ onboard = NoSignup

\* the pages' own forms, closed and empty
InitFormFields ==
    /\ name = [v \in Views |-> "Student"]
    /\ catalog = [v \in Views |-> <<>>]
    /\ editOpen = [v \in Views |-> FALSE]
    /\ editingSubject = [v \in Views |-> NoSubject]
    /\ editingTotalValue = [v \in Views |-> ""]
    /\ editSaving = [v \in Views |-> FALSE]
    /\ addSubject = [v \in Views |-> ""]
    /\ addTotal = [v \in Views |-> ""]
    /\ adding = [v \in Views |-> FALSE]
    /\ nextSubjects = [v \in Views |-> {}]
    /\ issued = [v \in Views |-> <<>>]

InitForms ==
    /\ InitAuth
    /\ authKind = "AuthA"
    /\ InitFormFields

\* the pages after mount, of the student u1
InitViewFields ==
    /\ user = [v \in Views |-> "u1"]
    /\ rows = [v \in Views |-> <<>>]
    /\ attendanceRecords = [v \in Views |-> <<>>]
    /\ selectedSubject = [v \in Views |-> NoSubject]
    /\ isModalOpen = [v \in Views |-> FALSE]
    /\ saving = [v \in Views |-> FALSE]
    /\ totalsRow = [v \in Views |-> NoTotalsRow]
    /\ selectedRecord = [v \in Views |-> NoRecord]
    /\ deleteDialogOpen = [v \in Views |-> FALSE]
    /\ pc = [v \in Views |-> "idle"]
    /\ toast = NoToast
    /\ call = ""
    /\ pending = [v \in Views |-> TRUE]
    /\ trip = NoTrip

InitViews ==
    /\ InitForms
    /\ InitViewFields

Init ==
    /\ InitStorage
    /\ InitViews
    /\ kind \in KindChoices
    /\ prior = storage

(***************************************************************************)
(* Fetches.  A fetch runs when the page is mounted and whenever a realtime *)
(* notification of a subscribed table arrives.                             *)
(***************************************************************************)
\* DashA.fetchTotals: the rows it sets (an error clears them)
FetchedRowsA(v, ok) == IF ok THEN QueryTotals(user[v]) ELSE <<>>
\* DashB.fetchTotals: the rows it sets (an error keeps them)
FetchedRowsB(v, ok) == IF ok THEN QueryTotals(user[v]) ELSE rows[v]

\* the toast of a fetch
\* if (prof) setName(prof.name || 'Student')
ProfileName(uid) ==
    IF \E p \in profiles : p.user_id = uid
      THEN LET p == CHOOSE q \in profiles : q.user_id = uid
           IN  IF p.name = "" THEN "Student" ELSE p.name
      ELSE "Student"

\* history: the writes a handler has issued since it started; a handler that
\* has ended has none
Issue(v) == [issued EXCEPT ![v] = IF pc'[v] = "idle" THEN <<>> ELSE Append(@, call')]

FetchToast(v, h, ok) == IF ok THEN NoToast ELSE <<v, h, "Error", "StorageUnavailable">>

FetchTotalsA(v, ok) ==
    /\ kind[v] = "DashA"
    /\ pending[v]
    /\ pending' = [pending EXCEPT ![v] = FALSE]
    /\ rows' = [rows EXCEPT ![v] = FetchedRowsA(v, ok)]
    /\ toast' = FetchToast(v, "fetchTotals", ok)
    /\ prior' = storage
    /\ UNCHANGED authVars
    /\ UNCHANGED <<formVars, profiles, name, catalog, issued>>
    /\ call' = "select"
    /\ trip' = TripKept
    /\ UNCHANGED <<attendance, attendance_totals, nextId, kind, user, attendanceRecords,
                   selectedSubject, isModalOpen, saving, totalsRow, selectedRecord,
                   deleteDialogOpen, pc>>

FetchTotalsB(v, ok) ==
    /\ kind[v] = "DashB"
    /\ pending[v]
    /\ pending' = [pending EXCEPT ![v] = FALSE]
    /\ rows' = [rows EXCEPT ![v] = FetchedRowsB(v, ok)]
    /\ toast' = FetchToast(v, "fetchTotals", ok)
    /\ prior' = storage
    /\ UNCHANGED authVars
    /\ UNCHANGED <<formVars, profiles, name, catalog, issued>>
    /\ call' = "select"
    /\ trip' = TripKept
    /\ UNCHANGED <<attendance, attendance_totals, nextId, kind, user, attendanceRecords,
                   selectedSubject, isModalOpen, saving, totalsRow, selectedRecord,
                   deleteDialogOpen, pc>>

\* Profile.fetchEverything: totals first, then logs; an error of the totals
\* query throws before either list is set
FetchEverything(v, ok) ==
    /\ kind[v] = "Profile"
    /\ pending[v]
    /\ pending' = [pending EXCEPT ![v] = FALSE]
    /\ rows' = [rows EXCEPT ![v] = IF ok THEN QueryTotals(user[v]) ELSE @]
    /\ attendanceRecords' = [attendanceRecords EXCEPT ![v] = IF ok THEN QueryLogs(user[v]) ELSE @]
    /\ toast' = FetchToast(v, "fetchEverything", ok)
    /\ prior' = storage
    /\ UNCHANGED authVars
    /\ name' = [name EXCEPT ![v] = IF ok THEN ProfileName(user[v]) ELSE @]
    /\ catalog' = [catalog EXCEPT ![v] = IF ok THEN Catalog ELSE <<>>]
    /\ UNCHANGED <<formVars, profiles, issued>>
    /\ call' = "select"
    /\ trip' = TripKept
    /\ UNCHANGED <<attendance, attendance_totals, nextId, kind, user,
                   selectedSubject, isModalOpen, saving, totalsRow, selectedRecord,
                   deleteDialogOpen, pc>>

(***************************************************************************)
(* Dashboard: mark attendance.                                             *)
(***************************************************************************)
\* openMarkModal(subject), the same in both variants
OpenMarkModal(v, s) ==
    /\ kind[v] \in {"DashA", "DashB"}
    /\ pc[v] = "idle"
    /\ ~isModalOpen[v]
    /\ HasRow(rows[v], s)              \* a card is rendered per local row only
    /\ IF AtCap(RowOf(rows[v], s))
         THEN /\ toast' = <<v, "openMarkModal", "Max reached", "">>
              /\ UNCHANGED <<selectedSubject, isModalOpen>>
         ELSE /\ selectedSubject' = [selectedSubject EXCEPT ![v] = s]
              /\ isModalOpen' = [isModalOpen EXCEPT ![v] = TRUE]
              /\ toast' = NoToast
    /\ prior' = storage
    /\ UNCHANGED authVars
    /\ UNCHANGED <<formVars, profiles, name, catalog, issued>>
    /\ call' = ""
    /\ trip' = TripKept
    /\ UNCHANGED <<attendance, attendance_totals, nextId, kind, user, rows,
                   attendanceRecords, saving, totalsRow, selectedRecord,
                   deleteDialogOpen, pc, pending>>

\* a finally block after which the handler awaits its last call again
FinallyMarkAgain(v) ==
    /\ saving' = [saving EXCEPT ![v] = pc[v] # "idle"]
    /\ isModalOpen' = [isModalOpen EXCEPT ![v] = FALSE]
    /\ selectedSubject' = [selectedSubject EXCEPT ![v] = NoSubject]
    /\ totalsRow' = [totalsRow EXCEPT ![v] = NoTotalsRow]
    /\ UNCHANGED pc

\* a finally block that leaves the busy flag set
FinallyMarkBusy(v) ==
    /\ isModalOpen' = [isModalOpen EXCEPT ![v] = FALSE]
    /\ selectedSubject' = [selectedSubject EXCEPT ![v] = NoSubject]
    /\ totalsRow' = [totalsRow EXCEPT ![v] = NoTotalsRow]
    /\ pc' = [pc EXCEPT ![v] = "idle"]
    /\ UNCHANGED saving

\* the finally block of handleConfirmMark
FinallyMark(v) ==
    /\ saving' = [saving EXCEPT ![v] = FALSE]
    /\ isModalOpen' = [isModalOpen EXCEPT ![v] = FALSE]
    /\ selectedSubject' = [selectedSubject EXCEPT ![v] = NoSubject]
    /\ totalsRow' = [totalsRow EXCEPT ![v] = NoTotalsRow]
    /\ pc' = [pc EXCEPT ![v] = "idle"]

\* rowsBySubject[selectedSubject] as the handler reads it (undefined: NoTotalsRow)
LocalRow(v) ==
    IF HasRow(rows[v], selectedSubject[v]) THEN RowOf(rows[v], selectedSubject[v])
    ELSE NoTotalsRow

\* DashA.handleConfirmMark, which of its exits the checks take:
\* "Not configured", "Max reached", or "" (go on to the insert)
CheckMarkA(v) ==
    IF ~HasRow(rows[v], selectedSubject[v]) THEN "Not configured"
    ELSE IF AtCap(LocalRow(v)) THEN "Max reached"
    ELSE ""

\* DashA.handleConfirmMark up to its first await: the checks, then
\* step 1, the insert of the log row
ConfirmMarkA(v, ok) ==
    /\ kind[v] = "DashA"
    /\ pc[v] = "idle"
    /\ isModalOpen[v] /\ ~saving[v]
    /\ selectedSubject[v] # NoSubject
    /\ IF CheckMarkA(v) # ""
         THEN /\ toast' = <<v, "handleConfirmMark", CheckMarkA(v), "">>
              /\ FinallyMark(v)
              /\ trip' = TripKept
              /\ UNCHANGED <<attendance, nextId, pending>>
         ELSE /\ nextId <= MaxLogs
              /\ IF ok
                   THEN /\ attendance' = InsertLog(user[v], selectedSubject[v])
                        /\ nextId' = nextId + 1
                        /\ pending' = Notify(user[v], {<<"attendance", "INSERT">>})
                        /\ saving' = [saving EXCEPT ![v] = TRUE]
                        /\ totalsRow' = [totalsRow EXCEPT ![v] = LocalRow(v)]
                        /\ pc' = [pc EXCEPT ![v] = "update"]
                        /\ toast' = NoToast
                        /\ trip' = TripStarted(v, "inserted")
                        /\ UNCHANGED <<isModalOpen, selectedSubject>>
                   ELSE /\ toast' = <<v, "handleConfirmMark", "Error", "StorageUnavailable">>
                        /\ FinallyMark(v)
                        /\ trip' = TripKept
                        /\ UNCHANGED <<attendance, nextId, pending>>
    /\ prior' = storage
    /\ UNCHANGED authVars
    /\ call' = IF CheckMarkA(v) # "" THEN "" ELSE "insert"
    /\ issued' = Issue(v)
    /\ UNCHANGED <<formVars, profiles, name, catalog>>
    /\ UNCHANGED <<attendance_totals, kind, user, rows, attendanceRecords,
                   selectedRecord, deleteDialogOpen>>

\* step 2: write count = captured count + 1
UpdateCountA(v, ok) ==
    /\ kind[v] = "DashA"
    /\ pc[v] = "update"
    /\ IF ok
         THEN /\ attendance_totals' =
                    UpdateCount(user[v], selectedSubject[v], NewCount(totalsRow[v]))
              /\ pending' = IF HasTotals(user[v], selectedSubject[v])
                              THEN Notify(user[v], {<<"attendance_totals", "UPDATE">>})
                              ELSE pending
              /\ toast' = <<v, "handleConfirmMark", "Marked!", "">>
              /\ pc' = [pc EXCEPT ![v] = "refetch"]
              /\ trip' = IF trip.view = v /\ trip.stage = "inserted"
                           THEN [trip EXCEPT !.stage = "marked"] ELSE NoTrip
              /\ UNCHANGED <<saving, isModalOpen, selectedSubject, totalsRow>>
         ELSE /\ toast' = <<v, "handleConfirmMark", "Error", "StorageUnavailable">>
              /\ FinallyMark(v)
              /\ trip' = IF trip.view = v /\ trip.stage = "inserted"
                           THEN [trip EXCEPT !.stage = "failed"] ELSE TripKept
              /\ UNCHANGED <<attendance_totals, pending>>
    /\ prior' = storage
    /\ UNCHANGED authVars
    /\ call' = "update"
    /\ issued' = Issue(v)
    /\ UNCHANGED <<formVars, profiles, name, catalog>>
    /\ UNCHANGED <<attendance, nextId, kind, user, rows, attendanceRecords,
                   selectedRecord, deleteDialogOpen>>

\* await fetchTotals(), then the finally block
RefetchA(v, ok) ==
    /\ kind[v] = "DashA"
    /\ pc[v] = "refetch"
    /\ rows' = [rows EXCEPT ![v] = FetchedRowsA(v, ok)]
    /\ toast' = FetchToast(v, "fetchTotals", ok)
    /\ FinallyMark(v)
    /\ prior' = storage
    /\ UNCHANGED authVars
    /\ call' = "select"
    /\ issued' = Issue(v)
    /\ UNCHANGED <<formVars, profiles, name, catalog>>
    /\ trip' = TripKept
    /\ UNCHANGED <<attendance, attendance_totals, nextId, kind, user,
                   attendanceRecords, selectedRecord, deleteDialogOpen, pending>>

\* DashB.handleConfirmMark: the one check before the RPC
CapReachedB(v) ==
    /\ HasRow(rows[v], selectedSubject[v])
    /\ AtCap(LocalRow(v))

\* the optimistic update: Math.min(row.count + 1, row.total)
OptimisticCount(row) == Min(row.count + 1, row.total)

OptimisticRows(rs, s) ==
    [i \in 1..Len(rs) |->
        IF rs[i].subject = s THEN [rs[i] EXCEPT !.count = OptimisticCount(rs[i])] ELSE rs[i]]

\* a handleConfirmMark that applies the optimistic update before it awaits
\* the RPC
ConfirmMarkBEager(v, ok) ==
    /\ kind[v] = "DashB"
    /\ pc[v] = "idle"
    /\ isModalOpen[v] /\ ~saving[v]
    /\ selectedSubject[v] # NoSubject
    /\ IF CapReachedB(v)
         THEN /\ toast' = <<v, "handleConfirmMark", "Max reached", "">>
              /\ FinallyMark(v)
              /\ trip' = TripKept
              /\ UNCHANGED <<attendance, attendance_totals, nextId, pending>>
         ELSE /\ nextId <= MaxLogs
              /\ LET err == IF ok THEN IncrementError(user[v], selectedSubject[v])
                                  ELSE "StorageUnavailable"
                 IN IF err = ""
                      THEN /\ attendance' = InsertLog(user[v], selectedSubject[v])
                           /\ nextId' = nextId + 1
                           /\ attendance_totals' = IncrementTotals(user[v], selectedSubject[v])
                           /\ pending' = Notify(user[v], {<<"attendance", "INSERT">>,
                                                          <<"attendance_totals", "UPDATE">>})
                           /\ saving' = [saving EXCEPT ![v] = TRUE]
                           /\ pc' = [pc EXCEPT ![v] = "reply"]
                           /\ toast' = NoToast
                           /\ trip' = TripStarted(v, "marked")
                           /\ UNCHANGED <<isModalOpen, selectedSubject, totalsRow>>
                      ELSE /\ toast' = <<v, "handleConfirmMark", "Error", err>>
                           /\ FinallyMark(v)
                           /\ trip' = TripKept
                           /\ UNCHANGED <<attendance, attendance_totals, nextId, pending>>
    /\ prior' = storage
    /\ UNCHANGED authVars
    /\ call' = IF CapReachedB(v) THEN "" ELSE "increment_attendance_total"
    /\ issued' = Issue(v)
    /\ UNCHANGED <<formVars, profiles, name, catalog>>
    /\ rows' = IF CapReachedB(v) THEN rows
                ELSE [rows EXCEPT ![v] = OptimisticRows(rows[v], selectedSubject[v])]
    /\ UNCHANGED <<kind, user, attendanceRecords, selectedRecord, deleteDialogOpen>>

\* DashB.handleConfirmMark up to its await: the check, then the RPC
\* increment_attendance_total, which storage runs as one step
ConfirmMarkB(v, ok) ==
    /\ kind[v] = "DashB"
    /\ pc[v] = "idle"
    /\ isModalOpen[v] /\ ~saving[v]
    /\ selectedSubject[v] # NoSubject
    /\ IF CapReachedB(v)
         THEN /\ toast' = <<v, "handleConfirmMark", "Max reached", "">>
              /\ FinallyMark(v)
              /\ trip' = TripKept
              /\ UNCHANGED <<attendance, attendance_totals, nextId, pending>>
         ELSE /\ nextId <= MaxLogs
              /\ LET err == IF ok THEN IncrementError(user[v], selectedSubject[v])
                                  ELSE "StorageUnavailable"
                 IN IF err = ""
                      THEN /\ attendance' = InsertLog(user[v], selectedSubject[v])
                           /\ nextId' = nextId + 1
                           /\ attendance_totals' = IncrementTotals(user[v], selectedSubject[v])
                           /\ pending' = Notify(user[v], {<<"attendance", "INSERT">>,
                                                          <<"attendance_totals", "UPDATE">>})
                           /\ saving' = [saving EXCEPT ![v] = TRUE]
                           /\ pc' = [pc EXCEPT ![v] = "reply"]
                           /\ toast' = NoToast
                           /\ trip' = TripStarted(v, "marked")
                           /\ UNCHANGED <<isModalOpen, selectedSubject, totalsRow>>
                      ELSE /\ toast' = <<v, "handleConfirmMark", "Error", err>>
                           /\ FinallyMark(v)
                           /\ trip' = TripKept
                           /\ UNCHANGED <<attendance, attendance_totals, nextId, pending>>
    /\ prior' = storage
    /\ UNCHANGED authVars
    /\ call' = IF CapReachedB(v) THEN "" ELSE "increment_attendance_total"
    /\ issued' = Issue(v)
    /\ UNCHANGED <<formVars, profiles, name, catalog>>
    /\ UNCHANGED <<kind, user, rows, attendanceRecords, selectedRecord, deleteDialogOpen>>

\* the RPC returned without error: toast, optimistic update, finally block
ReplyB(v) ==
    /\ kind[v] = "DashB"
    /\ pc[v] = "reply"
    /\ toast' = <<v, "handleConfirmMark", "Marked!", "">>
    /\ rows' = [rows EXCEPT ![v] = OptimisticRows(rows[v], selectedSubject[v])]
    /\ FinallyMark(v)
    /\ prior' = storage
    /\ UNCHANGED authVars
    /\ call' = ""
    /\ issued' = Issue(v)
    /\ UNCHANGED <<formVars, profiles, name, catalog>>
    /\ trip' = TripKept
    /\ UNCHANGED <<attendance, attendance_totals, nextId, kind, user,
                   attendanceRecords, selectedRecord, deleteDialogOpen, pending>>

(***************************************************************************)
(* Profile: delete an attendance record.                                   *)
(***************************************************************************)
\* requestDeleteRecord(rec) / the trash button of a listed record
RequestDeleteRecord(v, i) ==
    /\ kind[v] = "Profile"
    /\ pc[v] = "idle"
    /\ ~deleteDialogOpen[v]
    /\ i \in 1..Len(attendanceRecords[v])
    /\ selectedRecord' = [selectedRecord EXCEPT ![v] = attendanceRecords[v][i]]
    /\ deleteDialogOpen' = [deleteDialogOpen EXCEPT ![v] = TRUE]
    /\ toast' = NoToast
    /\ prior' = storage
    /\ UNCHANGED authVars
    /\ UNCHANGED <<formVars, profiles, name, catalog, issued>>
    /\ call' = ""
    /\ trip' = TripKept
    /\ UNCHANGED <<attendance, attendance_totals, nextId, kind, user, rows,
                   attendanceRecords, selectedSubject, isModalOpen, saving,
                   totalsRow, pc, pending>>

\* a p_id taken from the first listed record instead of the selected one
DeleteArgFirst(v) ==
    IF Len(attendanceRecords[v]) > 0 THEN attendanceRecords[v][1].id ELSE selectedRecord[v].id

\* the p_id handleDeleteAttendance passes to delete_log_and_decrement
DeleteArg(v) == selectedRecord[v].id

\* subject of the stored log row with this id (NoSubject if there is none)
LogSubject(id) ==
    IF \E l \in attendance : l.id = id
      THEN (CHOOSE l \in attendance : l.id = id).subject ELSE NoSubject

\* handleDeleteAttendance up to its second await: the RPC
\* delete_log_and_decrement, which storage runs as one step, and its reply
HandleDeleteAttendance(v, ok) ==
    /\ kind[v] = "Profile"
    /\ pc[v] = "idle"
    /\ deleteDialogOpen[v]
    /\ selectedRecord[v] # NoRecord
    /\ LET err == IF ok THEN DeleteError(user[v], DeleteArg(v)) ELSE "StorageUnavailable"
       IN IF err = ""
            THEN /\ attendance' = DeleteLog(user[v], DeleteArg(v))
                 /\ attendance_totals' = DecrementTotals(user[v], LogSubject(DeleteArg(v)))
                 /\ pending' = Notify(user[v],
                        {<<"attendance", "DELETE">>} \cup
                        (IF HasTotals(user[v], LogSubject(DeleteArg(v)))
                           THEN {<<"attendance_totals", "UPDATE">>} ELSE {}))
                 /\ toast' = <<v, "handleDeleteAttendance", "Deleted", "">>
                 /\ selectedRecord' = [selectedRecord EXCEPT ![v] = NoRecord]
                 /\ deleteDialogOpen' = [deleteDialogOpen EXCEPT ![v] = FALSE]
                 /\ pc' = [pc EXCEPT ![v] = "refetch"]
                 /\ trip' = IF trip.stage = "marked" /\ trip.id = DeleteArg(v)
                              THEN [trip EXCEPT !.stage = "deleted"] ELSE NoTrip
            ELSE /\ toast' = <<v, "handleDeleteAttendance", "Error", err>>
                 /\ trip' = TripKept
                 /\ UNCHANGED <<attendance, attendance_totals, pending, selectedRecord,
                                deleteDialogOpen, pc>>
    /\ prior' = storage
    /\ UNCHANGED authVars
    /\ call' = "delete_log_and_decrement"
    /\ issued' = Issue(v)
    /\ UNCHANGED <<formVars, profiles, name, catalog>>
    /\ UNCHANGED <<nextId, kind, user, rows, attendanceRecords, selectedSubject,
                   isModalOpen, saving, totalsRow>>

\* await fetchEverything() at the end of handleDeleteAttendance
RefetchP(v, ok) ==
    /\ kind[v] = "Profile"
    /\ pc[v] = "refetch"
    /\ rows' = [rows EXCEPT ![v] = IF ok THEN QueryTotals(user[v]) ELSE @]
    /\ attendanceRecords' = [attendanceRecords EXCEPT ![v] = IF ok THEN QueryLogs(user[v]) ELSE @]
    /\ toast' = FetchToast(v, "fetchEverything", ok)
    /\ pc' = [pc EXCEPT ![v] = "idle"]
    /\ prior' = storage
    /\ UNCHANGED authVars
    /\ name' = [name EXCEPT ![v] = IF ok THEN ProfileName(user[v]) ELSE @]
    /\ catalog' = [catalog EXCEPT ![v] = IF ok THEN Catalog ELSE <<>>]
    /\ call' = "select"
    /\ issued' = Issue(v)
    /\ UNCHANGED <<formVars, profiles>>
    /\ trip' = TripKept
    /\ UNCHANGED <<attendance, attendance_totals, nextId, kind, user,
                   selectedSubject, isModalOpen, saving, totalsRow, selectedRecord,
                   deleteDialogOpen, pending>>

(***************************************************************************)
(* Specification: two open views of one student, of any kinds, with a      *)
(* storage that may reject any call.                                       *)
(***************************************************************************)
\* the effect of the Dashboard that depends on [user]: useAuth() hands the
\* mounted page another authenticated user (another account signed in in the
\* same browser); the effect fetches and subscribes for the new user, and
\* the page keeps its rows and its open dialog until that fetch replies
UserChanged(v, u) ==
    /\ kind[v] \in {"DashA", "DashB"}
    /\ pc[v] = "idle"
    /\ u # user[v]
    /\ user' = [user EXCEPT ![v] = u]
    /\ pending' = [pending EXCEPT ![v] = TRUE]
    /\ toast' = NoToast
    /\ prior' = storage
    /\ UNCHANGED authVars
    /\ UNCHANGED <<formVars, profiles, name, catalog, issued>>
    /\ call' = ""
    /\ trip' = TripKept
    /\ UNCHANGED <<attendance, attendance_totals, nextId, kind, rows, attendanceRecords,
                   selectedSubject, isModalOpen, saving, totalsRow, selectedRecord,
                   deleteDialogOpen, pc>>

Next ==
    \/ \E v \in Views, ok \in ReadOutcomesA : FetchTotalsA(v, ok)
    \/ \E v \in Views, ok \in ReadOutcomes : FetchTotalsB(v, ok)
    \/ \E v \in Views, ok \in ReadOutcomes : FetchEverything(v, ok)
    \/ \E v \in Views, s \in Subjects : OpenMarkModal(v, s)
    \/ \E v \in Views, ok \in WriteOutcomes : ConfirmMarkA(v, ok)
    \/ \E v \in Views, ok \in WriteOutcomes : UpdateCountA(v, ok)
    \/ \E v \in Views, ok \in ReadOutcomesA : RefetchA(v, ok)
    \/ \E v \in Views, ok \in WriteOutcomes : ConfirmMarkB(v, ok)
    \/ \E v \in Views : ReplyB(v)
    \/ \E v \in Views, i \in 1..MaxLogs : RequestDeleteRecord(v, i)
    \/ \E v \in Views, ok \in WriteOutcomes : HandleDeleteAttendance(v, ok)
    \/ \E v \in Views, ok \in ReadOutcomes : RefetchP(v, ok)

Spec == Init /\ [][Next]_vars

(***************************************************************************)
(* Specification of the insert-then-update Dashboard alone: the views show *)
(* DashA or Profile, and storage serves every call.                        *)
(***************************************************************************)
InitTwoStep ==
    /\ InitStorage
    /\ InitViews
    /\ kind \in {k \in KindChoices : \A v \in Views : k[v] # "DashB"}
    /\ prior = storage

NextTwoStep ==
    \/ \E v \in Views : FetchTotalsA(v, TRUE)
    \/ \E v \in Views : FetchEverything(v, TRUE)
    \/ \E v \in Views, s \in Subjects : OpenMarkModal(v, s)
    \/ \E v \in Views : ConfirmMarkA(v, TRUE)
    \/ \E v \in Views : UpdateCountA(v, TRUE)
    \/ \E v \in Views : RefetchA(v, TRUE)
    \/ \E v \in Views, i \in 1..MaxLogs : RequestDeleteRecord(v, i)
    \/ \E v \in Views : HandleDeleteAttendance(v, TRUE)
    \/ \E v \in Views : RefetchP(v, TRUE)

SpecTwoStep == InitTwoStep /\ [][NextTwoStep]_vars

(***************************************************************************)
(* Specification of the race of two marks: two Dashboards (of either       *)
(* variant) have loaded the row of ADA at count 0, total 10, and both have *)
(* the mark dialog open on it; storage serves every call.                  *)
(***************************************************************************)
InitRace ==
    /\ InitForms
    /\ profiles = {[user_id |-> "u1", name |-> "Asha", selected_subjects |-> {"ADA"},
                   onboarding_complete |-> TRUE]}
    /\ attendance = {}
    /\ nextId = 1
    /\ attendance_totals = {[student_id |-> "u1", subject |-> "ADA", count |-> 0, total |-> 10]}
    /\ kind \in {k \in KindChoices : \A v \in Views : k[v] # "Profile"}
    /\ user = [v \in Views |-> "u1"]
    /\ rows = [v \in Views |-> <<[subject |-> "ADA", count |-> 0, total |-> 10]>>]
    /\ attendanceRecords = [v \in Views |-> <<>>]
    /\ selectedSubject = [v \in Views |-> "ADA"]
    /\ isModalOpen = [v \in Views |-> TRUE]
    /\ saving = [v \in Views |-> FALSE]
    /\ totalsRow = [v \in Views |-> NoTotalsRow]
    /\ selectedRecord = [v \in Views |-> NoRecord]
    /\ deleteDialogOpen = [v \in Views |-> FALSE]
    /\ pc = [v \in Views |-> "idle"]
    /\ toast = NoToast
    /\ call = ""
    /\ pending = [v \in Views |-> FALSE]
    /\ prior = storage
    /\ trip = NoTrip

NextRace ==
    \/ \E v \in Views : FetchTotalsA(v, TRUE)
    \/ \E v \in Views : FetchTotalsB(v, TRUE)
    \/ \E v \in Views : ConfirmMarkA(v, TRUE)
    \/ \E v \in Views : UpdateCountA(v, TRUE)
    \/ \E v \in Views : RefetchA(v, TRUE)
    \/ \E v \in Views : ConfirmMarkB(v, TRUE)
    \/ \E v \in Views : ReplyB(v)

SpecRace == InitRace /\ [][NextRace]_vars

(***************************************************************************)
(* Specification of a change of account: the views are Dashboards, storage *)
(* serves every call, and the authenticated user of a page can change.     *)
(***************************************************************************)
InitSwitch ==
    /\ InitStorage
    /\ InitViews
    /\ kind \in {k \in KindChoices : \A v \in Views : k[v] # "Profile"}
    /\ prior = storage

NextSwitch ==
    \/ \E v \in Views : FetchTotalsA(v, TRUE)
    \/ \E v \in Views : FetchTotalsB(v, TRUE)
    \/ \E v \in Views, s \in Subjects : OpenMarkModal(v, s)
    \/ \E v \in Views : ConfirmMarkA(v, TRUE)
    \/ \E v \in Views : UpdateCountA(v, TRUE)
    \/ \E v \in Views : RefetchA(v, TRUE)
    \/ \E v \in Views : ConfirmMarkB(v, TRUE)
    \/ \E v \in Views : ReplyB(v)
    \/ \E v \in Views, u \in Students : UserChanged(v, u)

SpecSwitch == InitSwitch /\ [][NextSwitch]_vars

(***************************************************************************)
(* Totals: the Edit Total dialog of every page and Profile's add-subject   *)
(* form.  A JavaScript number is held as [nan, halves]: the number is      *)
(* halves / 2, so that a value with a fraction can be typed.               *)
(***************************************************************************)
\* what a user types into a number input
TypedTexts == {"", "abc", "-1", "1.5", "2"}

\* the numerals of the model and the number each one denotes, in halves
Numerals == [t \in {"-1", "0", "1", "1.5", "2"} |->
                CASE t = "-1" -> -2 [] t = "0" -> 0 [] t = "1" -> 2
                  [] t = "1.5" -> 3 [] t = "2" -> 4]

\* <input type="number">: e.target.value is the typed text when it is a
\* number, and '' otherwise
InputValue(typed) == IF typed \in DOMAIN Numerals THEN typed ELSE ""

\* Number(x) of a string or number: '' is 0, a numeral its number, else NaN
Number(t) ==
    IF t = "" THEN [nan |-> FALSE, halves |-> 0]
    ELSE IF t \in DOMAIN Numerals THEN [nan |-> FALSE, halves |-> Numerals[t]]
    ELSE [nan |-> TRUE, halves |-> 0]

\* the content of an input that shows the integer n
ToText(n) == CHOOSE t \in DOMAIN Numerals : Numerals[t] = 2 * n

\* !Number.isFinite(parsed) || parsed < 0
Invalid(parsed) == parsed.nan \/ parsed.halves < 0

\* rounding to the nearest integer
FloorUp(parsed) == (parsed.halves + 1) \div 2

\* Math.floor(parsed)
Floor(parsed) == parsed.halves \div 2

\* an update that sets the count as well
UpdateTotalAndCount(uid, s, t) ==
    {IF r.student_id = uid /\ r.subject = s THEN [r EXCEPT !.total = t, !.count = Min(r.count, t)] ELSE r
        : r \in attendance_totals}

\* from('attendance_totals').update({total}).eq(student_id).eq(subject)
UpdateTotal(uid, s, t) ==
    {IF r.student_id = uid /\ r.subject = s THEN [r EXCEPT !.total = t] ELSE r
        : r \in attendance_totals}

\* the count of a totals row inserted without one (column default)
DefaultCount == 0

\* from('attendance_totals').upsert({student_id, subject, total}): the row of
\* the key (student_id, subject) gets the total; it is inserted when missing
UpsertTotals(uid, s, t) ==
    IF HasTotals(uid, s)
      THEN UpdateTotal(uid, s, t)
      ELSE attendance_totals \cup
             {[student_id |-> uid, subject |-> s, count |-> DefaultCount, total |-> t]}

\* onboarding_complete of a profile that is inserted without one
DefaultOnboarded == FALSE

\* from('profiles').upsert({user_id, name, selected_subjects}): the columns
\* that are not given keep their value
UpsertProfiles(uid, n, subs) ==
    {p \in profiles : p.user_id # uid} \cup
      {[user_id |-> uid, name |-> n, selected_subjects |-> subs,
        onboarding_complete |->
            IF \E p \in profiles : p.user_id = uid
              THEN (CHOOSE p \in profiles : p.user_id = uid).onboarding_complete
              ELSE DefaultOnboarded]}

\* the variables of the mark and delete dialogs
markVars == <<selectedSubject, isModalOpen, saving, totalsRow, selectedRecord,
              deleteDialogOpen>>

\* openEditTotal(subject): the Edit button of a listed row
OpenEditTotal(v, s) ==
    /\ pc[v] = "idle"
    /\ ~editOpen[v]
    /\ HasRow(rows[v], s)
    /\ editingSubject' = [editingSubject EXCEPT ![v] = s]
    /\ editingTotalValue' = [editingTotalValue EXCEPT ![v] = ToText(RowOf(rows[v], s).total)]
    /\ editOpen' = [editOpen EXCEPT ![v] = TRUE]
    /\ toast' = NoToast
    /\ prior' = storage
    /\ UNCHANGED authVars
    /\ call' = ""
    /\ trip' = TripKept
    /\ UNCHANGED <<attendance, attendance_totals, nextId, kind, user, rows,
                   attendanceRecords, markVars, pc, pending, profiles, name, catalog,
                   editSaving, addSubject, addTotal, adding, nextSubjects, issued>>

\* onChange of the Edit Total input: '' stays '', anything else is Number(value)
TypeEditTotal(v, typed) ==
    /\ pc[v] = "idle"
    /\ editOpen[v]
    /\ editingTotalValue' = [editingTotalValue EXCEPT ![v] = InputValue(typed)]
    /\ toast' = NoToast
    /\ prior' = storage
    /\ UNCHANGED authVars
    /\ call' = ""
    /\ trip' = TripKept
    /\ UNCHANGED <<attendance, attendance_totals, nextId, kind, user, rows,
                   attendanceRecords, markVars, pc, pending, profiles, name, catalog,
                   editOpen, editingSubject, editSaving, addSubject, addTotal, adding,
                   nextSubjects, issued>>

\* the Cancel button of the dialog: the Dashboard clears the dialog's state,
\* Profile only closes it
CancelEdit(v) ==
    /\ pc[v] = "idle"
    /\ editOpen[v]
    /\ editOpen' = [editOpen EXCEPT ![v] = FALSE]
    /\ IF kind[v] = "Profile"
         THEN UNCHANGED <<editingSubject, editingTotalValue>>
         ELSE /\ editingSubject' = [editingSubject EXCEPT ![v] = NoSubject]
              /\ editingTotalValue' = [editingTotalValue EXCEPT ![v] = ""]
    /\ toast' = NoToast
    /\ prior' = storage
    /\ UNCHANGED authVars
    /\ call' = ""
    /\ trip' = TripKept
    /\ UNCHANGED <<attendance, attendance_totals, nextId, kind, user, rows,
                   attendanceRecords, markVars, pc, pending, profiles, name, catalog,
                   editSaving, addSubject, addTotal, adding, nextSubjects, issued>>

\* the title of saveEditTotal's toast for a refused value
InvalidTitle(v) == IF kind[v] = "Profile" THEN "Invalid" ELSE "Invalid value"

\* saveEditTotal up to its first await: the validation, then the update;
\* Profile closes the dialog before it fetches
SaveEditTotal(v, ok) ==
    /\ pc[v] = "idle"
    /\ editOpen[v]
    /\ editingSubject[v] # NoSubject
    /\ LET parsed == Number(editingTotalValue[v])
           s == editingSubject[v]
       IN IF Invalid(parsed)
            THEN /\ toast' = <<v, "saveEditTotal", InvalidTitle(v), "">>
                 /\ call' = ""
                 /\ trip' = TripKept
                 /\ UNCHANGED <<attendance_totals, pending, pc, editOpen, editingSubject,
                                editingTotalValue, editSaving>>
            ELSE /\ call' = "update_total"
                 /\ IF ok
                      THEN /\ attendance_totals' = UpdateTotal(user[v], s, Floor(parsed))
                           /\ pending' = Notify(user[v],
                                  IF HasTotals(user[v], s)
                                    THEN {<<"attendance_totals", "UPDATE">>} ELSE {})
                           /\ toast' = <<v, "saveEditTotal", "Saved", "">>
                           /\ pc' = [pc EXCEPT ![v] = "editRefetch"]
                           /\ editSaving' = [editSaving EXCEPT ![v] = TRUE]
                           /\ trip' = NoTrip
                           /\ IF kind[v] = "Profile"
                                THEN /\ editOpen' = [editOpen EXCEPT ![v] = FALSE]
                                     /\ editingSubject' = [editingSubject EXCEPT ![v] = NoSubject]
                                     /\ editingTotalValue' = [editingTotalValue EXCEPT ![v] = ""]
                                ELSE UNCHANGED <<editOpen, editingSubject, editingTotalValue>>
                      ELSE /\ toast' = <<v, "saveEditTotal", "Error", "StorageUnavailable">>
                           /\ trip' = TripKept
                           /\ UNCHANGED <<attendance_totals, pending, pc, editOpen,
                                          editingSubject, editingTotalValue, editSaving>>
    /\ prior' = storage
    /\ UNCHANGED authVars
    /\ issued' = Issue(v)
    /\ UNCHANGED <<attendance, nextId, kind, user, rows, attendanceRecords, markVars,
                   profiles, name, catalog, addSubject, addTotal, adding, nextSubjects>>

\* await fetchTotals() / fetchEverything() of saveEditTotal, then (Dashboard)
\* the dialog is closed, then the finally block
RefetchEdit(v, ok) ==
    /\ pc[v] = "editRefetch"
    /\ rows' = [rows EXCEPT ![v] =
                  CASE kind[v] = "DashA" -> FetchedRowsA(v, ok)
                    [] kind[v] = "DashB" -> FetchedRowsB(v, ok)
                    [] OTHER -> IF ok THEN QueryTotals(user[v]) ELSE @]
    /\ IF kind[v] = "Profile"
         THEN /\ attendanceRecords' = [attendanceRecords EXCEPT ![v] =
                                          IF ok THEN QueryLogs(user[v]) ELSE @]
              /\ name' = [name EXCEPT ![v] = IF ok THEN ProfileName(user[v]) ELSE @]
              /\ catalog' = [catalog EXCEPT ![v] = IF ok THEN Catalog ELSE <<>>]
              /\ toast' = FetchToast(v, "fetchEverything", ok)
              /\ UNCHANGED <<editOpen, editingSubject, editingTotalValue>>
         ELSE /\ editOpen' = [editOpen EXCEPT ![v] = FALSE]
              /\ editingSubject' = [editingSubject EXCEPT ![v] = NoSubject]
              /\ editingTotalValue' = [editingTotalValue EXCEPT ![v] = ""]
              /\ toast' = FetchToast(v, "fetchTotals", ok)
              /\ UNCHANGED <<attendanceRecords, name, catalog>>
    /\ editSaving' = [editSaving EXCEPT ![v] = FALSE]
    /\ pc' = [pc EXCEPT ![v] = "idle"]
    /\ prior' = storage
    /\ UNCHANGED authVars
    /\ call' = "select"
    /\ issued' = Issue(v)
    /\ trip' = TripKept
    /\ UNCHANGED <<attendance, attendance_totals, nextId, kind, user, markVars,
                   pending, profiles, addSubject, addTotal, adding, nextSubjects>>

\* the subjects Profile's add form offers:
\* catalog.filter(c => !totalsRows.some(r => r.subject === c.code))
Offered(v) == {catalog[v][i] : i \in 1..Len(catalog[v])} \ {rows[v][i].subject : i \in 1..Len(rows[v])}

\* onValueChange of the add form's select
PickAddSubject(v, s) ==
    /\ kind[v] = "Profile"
    /\ pc[v] = "idle"
    /\ s \in Offered(v)
    /\ addSubject' = [addSubject EXCEPT ![v] = s]
    /\ toast' = NoToast
    /\ prior' = storage
    /\ UNCHANGED authVars
    /\ call' = ""
    /\ trip' = TripKept
    /\ UNCHANGED <<attendance, attendance_totals, nextId, kind, user, rows,
                   attendanceRecords, markVars, pc, pending, profiles, name, catalog,
                   editOpen, editingSubject, editingTotalValue, editSaving, addTotal,
                   adding, nextSubjects, issued>>

\* onChange of the add form's total input: setAddTotal(e.target.value)
TypeAddTotal(v, typed) ==
    /\ kind[v] = "Profile"
    /\ pc[v] = "idle"
    /\ addTotal' = [addTotal EXCEPT ![v] = InputValue(typed)]
    /\ toast' = NoToast
    /\ prior' = storage
    /\ UNCHANGED authVars
    /\ call' = ""
    /\ trip' = TripKept
    /\ UNCHANGED <<attendance, attendance_totals, nextId, kind, user, rows,
                   attendanceRecords, markVars, pc, pending, profiles, name, catalog,
                   editOpen, editingSubject, editingTotalValue, editSaving, addSubject,
                   adding, nextSubjects, issued>>

\* what handleAddSubject's checks answer before any call: the toast title, "" to go on
CheckAdd(v) ==
    IF addSubject[v] = "" THEN "Pick a subject"
    ELSE IF Invalid(Number(addTotal[v])) THEN "Invalid total"
    ELSE ""

\* handleAddSubject up to its first await: the checks, then the totals upsert
HandleAddSubject(v, ok) ==
    /\ kind[v] = "Profile"
    /\ pc[v] = "idle"
    /\ IF CheckAdd(v) # ""
         THEN /\ toast' = <<v, "handleAddSubject", CheckAdd(v), "">>
              /\ call' = ""
              /\ trip' = TripKept
              /\ UNCHANGED <<attendance_totals, pending, pc, adding, nextSubjects>>
         ELSE /\ call' = "upsert_totals"
              /\ IF ok
                   THEN /\ attendance_totals' =
                              UpsertTotals(user[v], addSubject[v], Floor(Number(addTotal[v])))
                        /\ pending' = Notify(user[v],
                               {<<"attendance_totals",
                                  IF HasTotals(user[v], addSubject[v]) THEN "UPDATE" ELSE "INSERT">>})
                        /\ nextSubjects' = [nextSubjects EXCEPT ![v] =
                               {rows[v][i].subject : i \in 1..Len(rows[v])} \cup {addSubject[v]}]
                        /\ adding' = [adding EXCEPT ![v] = TRUE]
                        /\ pc' = [pc EXCEPT ![v] = "addProfile"]
                        /\ toast' = NoToast
                        /\ trip' = NoTrip
                   ELSE /\ toast' = <<v, "handleAddSubject", "Error", "StorageUnavailable">>
                        /\ trip' = TripKept
                        /\ UNCHANGED <<attendance_totals, pending, pc, adding, nextSubjects>>
    /\ prior' = storage
    /\ UNCHANGED authVars
    /\ issued' = Issue(v)
    /\ UNCHANGED <<attendance, nextId, kind, user, rows, attendanceRecords, markVars,
                   profiles, name, catalog, editOpen, editingSubject, editingTotalValue,
                   editSaving, addSubject, addTotal>>

\* the profiles upsert of handleAddSubject, whose result is not looked at,
\* then the form is cleared and "Added" is shown
UpsertProfile(v, ok) ==
    /\ pc[v] = "addProfile"
    /\ profiles' = IF ok THEN UpsertProfiles(user[v], name[v], nextSubjects[v]) ELSE profiles
    /\ addSubject' = [addSubject EXCEPT ![v] = ""]
    /\ addTotal' = [addTotal EXCEPT ![v] = ""]
    /\ nextSubjects' = [nextSubjects EXCEPT ![v] = {}]
    /\ toast' = <<v, "handleAddSubject", "Added", "">>
    /\ pc' = [pc EXCEPT ![v] = "addRefetch"]
    /\ prior' = storage
    /\ UNCHANGED authVars
    /\ call' = "upsert_profiles"
    /\ issued' = Issue(v)
    /\ trip' = TripKept
    /\ UNCHANGED <<attendance, attendance_totals, nextId, kind, user, rows,
                   attendanceRecords, markVars, pending, name, catalog, editOpen,
                   editingSubject, editingTotalValue, editSaving, adding>>

\* await fetchEverything() at the end of handleAddSubject, then the finally block
RefetchAdd(v, ok) ==
    /\ pc[v] = "addRefetch"
    /\ rows' = [rows EXCEPT ![v] = IF ok THEN QueryTotals(user[v]) ELSE @]
    /\ attendanceRecords' = [attendanceRecords EXCEPT ![v] = IF ok THEN QueryLogs(user[v]) ELSE @]
    /\ name' = [name EXCEPT ![v] = IF ok THEN ProfileName(user[v]) ELSE @]
    /\ catalog' = [catalog EXCEPT ![v] = IF ok THEN Catalog ELSE <<>>]
    /\ toast' = FetchToast(v, "fetchEverything", ok)
    /\ adding' = [adding EXCEPT ![v] = FALSE]
    /\ pc' = [pc EXCEPT ![v] = "idle"]
    /\ prior' = storage
    /\ UNCHANGED authVars
    /\ call' = "select"
    /\ issued' = Issue(v)
    /\ trip' = TripKept
    /\ UNCHANGED <<attendance, attendance_totals, nextId, kind, user, markVars,
                   pending, profiles, editOpen, editingSubject, editingTotalValue,
                   editSaving, addSubject, addTotal, nextSubjects>>

(***************************************************************************)
(* Specification of the Edit Total dialog: the student has marked ADA,     *)
(* which has no cap, MaxLogs times, and CN never; one page of any kind     *)
(* edits totals while a Profile page looks on.  The ledger does not change.*)
(***************************************************************************)
\* the views whose user works with the dialog
Editors == {"v1"}

InitMarked ==
    /\ attendance = {[id |-> i, student_id |-> "u1", subject |-> "ADA"] : i \in 1..MaxLogs}
    /\ nextId = MaxLogs + 1

InitEdit ==
    /\ InitMarked
    /\ attendance_totals =
          {[student_id |-> "u1", subject |-> "ADA", count |-> MaxLogs, total |-> 0],
           [student_id |-> "u1", subject |-> "CN", count |-> 0, total |-> MaxTotal]}
    /\ profiles = {[user_id |-> "u1", name |-> "Asha", selected_subjects |-> {"ADA", "CN"},
                   onboarding_complete |-> TRUE]}
    /\ InitViews
    /\ kind \in {k \in [Views -> Kinds] : \A v \in Views \ Editors : k[v] = "Profile"}
    /\ prior = storage

NextEdit ==
    \/ \E v \in Views : FetchTotalsA(v, TRUE)
    \/ \E v \in Views : FetchTotalsB(v, TRUE)
    \/ \E v \in Views : FetchEverything(v, TRUE)
    \/ \E v \in Editors, s \in Subjects : OpenEditTotal(v, s)
    \/ \E v \in Editors, typed \in TypedTexts : TypeEditTotal(v, typed)
    \/ \E v \in Editors : CancelEdit(v)
    \/ \E v \in Editors, ok \in WriteOutcomes : SaveEditTotal(v, ok)
    \/ \E v \in Editors : RefetchEdit(v, TRUE)

SpecEdit == InitEdit /\ [][NextEdit]_vars

(***************************************************************************)
(* Specification of Profile's add-subject form: two Profile pages of one   *)
(* student who has marked ADA MaxLogs times and has no row of CN yet.  The *)
(* ledger does not change.                                                 *)
(***************************************************************************)
InitAdd ==
    /\ InitMarked
    /\ attendance_totals =
          {[student_id |-> "u1", subject |-> "ADA", count |-> MaxLogs, total |-> 0]}
    /\ profiles = {[user_id |-> "u1", name |-> "Asha", selected_subjects |-> {"ADA"},
                   onboarding_complete |-> TRUE]}
    /\ InitViews
    /\ kind = [v \in Views |-> "Profile"]
    /\ prior = storage

NextAdd ==
    \/ \E v \in Views : FetchEverything(v, TRUE)
    \/ \E v \in Views, s \in Subjects : PickAddSubject(v, s)
    \/ \E v \in Views, typed \in TypedTexts : TypeAddTotal(v, typed)
    \/ \E v \in Views, ok \in WriteOutcomes : HandleAddSubject(v, ok)
    \/ \E v \in Views, ok \in WriteOutcomes : UpsertProfile(v, ok)
    \/ \E v \in Views : RefetchAdd(v, TRUE)

SpecAdd == InitAdd /\ [][NextAdd]_vars

(***************************************************************************)
(* Specification of two students: u1 and u2 each have a row of ADA, and    *)
(* u2 a marked lecture; page v1 is u1's and page v2 is u2's, of any kinds; *)
(* storage serves every call.                                              *)
(***************************************************************************)
InitOwn ==
    /\ attendance = {[id |-> 1, student_id |-> "u2", subject |-> "ADA"]}
    /\ nextId = 2
    /\ attendance_totals =
          {[student_id |-> "u1", subject |-> "ADA", count |-> 0, total |-> 0],
           [student_id |-> "u2", subject |-> "ADA", count |-> 1, total |-> 0]}
    /\ profiles = {[user_id |-> "u1", name |-> "Asha", selected_subjects |-> {"ADA"},
                   onboarding_complete |-> TRUE],
                   [user_id |-> "u2", name |-> "Ravi", selected_subjects |-> {"ADA"},
                   onboarding_complete |-> TRUE]}
    /\ InitForms
    /\ user = [v \in Views |-> IF v = "v1" THEN "u1" ELSE "u2"]
    /\ rows = [v \in Views |-> <<>>]
    /\ attendanceRecords = [v \in Views |-> <<>>]
    /\ selectedSubject = [v \in Views |-> NoSubject]
    /\ isModalOpen = [v \in Views |-> FALSE]
    /\ saving = [v \in Views |-> FALSE]
    /\ totalsRow = [v \in Views |-> NoTotalsRow]
    /\ selectedRecord = [v \in Views |-> NoRecord]
    /\ deleteDialogOpen = [v \in Views |-> FALSE]
    /\ pc = [v \in Views |-> "idle"]
    /\ toast = NoToast
    /\ call = ""
    /\ pending = [v \in Views |-> TRUE]
    /\ trip = NoTrip
    /\ kind \in [Views -> Kinds]
    /\ prior = storage

NextOwn ==
    \/ \E v \in Views : FetchTotalsA(v, TRUE)
    \/ \E v \in Views : FetchTotalsB(v, TRUE)
    \/ \E v \in Views : FetchEverything(v, TRUE)
    \/ \E v \in Views, s \in Subjects : OpenMarkModal(v, s)
    \/ \E v \in Views : ConfirmMarkA(v, TRUE)
    \/ \E v \in Views : UpdateCountA(v, TRUE)
    \/ \E v \in Views : RefetchA(v, TRUE)
    \/ \E v \in Views : ConfirmMarkB(v, TRUE)
    \/ \E v \in Views : ReplyB(v)
    \/ \E v \in Views, i \in 1..MaxLogs : RequestDeleteRecord(v, i)
    \/ \E v \in Views : HandleDeleteAttendance(v, TRUE)
    \/ \E v \in Views : RefetchP(v, TRUE)
    \/ \E v \in Editors, s \in Subjects : OpenEditTotal(v, s)
    \/ \E v \in Editors, typed \in TypedTexts : TypeEditTotal(v, typed)
    \/ \E v \in Editors : SaveEditTotal(v, TRUE)
    \/ \E v \in Editors : RefetchEdit(v, TRUE)
    \/ \E v \in Editors, s \in Subjects : PickAddSubject(v, s)
    \/ \E v \in Editors : TypeAddTotal(v, "2")
    \/ \E v \in Editors : HandleAddSubject(v, TRUE)
    \/ \E v \in Editors : UpsertProfile(v, TRUE)
    \/ \E v \in Editors : RefetchAdd(v, TRUE)

SpecOwn == InitOwn /\ [][NextOwn]_vars

(***************************************************************************)
(* The display projection of a row.  JavaScript numbers are IEEE 754       *)
(* doubles: a positive double is held as [m, e], m its 53 significant      *)
(* binary digits, first digit first, and e the exponent of the first: the  *)
(* digit m[i] has the weight 2^(e - (i - 1)).                              *)
(***************************************************************************)
DisplayMax == 40    \* the greatest count and total of a displayed row

\* the number of significant binary digits of a double
Precision == 53

RECURSIVE PowerMod(_, _)
\* 2^k modulo t
PowerMod(k, t) ==
    IF k = 0 THEN 1 % t
    ELSE LET h == PowerMod(k \div 2, t)
         IN  (h * h * (IF k % 2 = 1 THEN 2 ELSE 1)) % t

\* the remainder of c * 2^k by t, for c < t
Remainder(c, k, t) == (c * PowerMod(k, t)) % t

\* long division: the k-th binary digit after the point of c / t, for c < t
QuotientDigit(c, k, t) == IF 2 * Remainder(c, k - 1, t) >= t THEN 1 ELSE 0

\* m + 1 in the last digit; carry is 1 when the result needs one digit more
Increment(m) ==
    IF \A i \in 1..Precision : m[i] = 1
      THEN [m |-> [i \in 1..Precision |-> IF i = 1 THEN 1 ELSE 0], carry |-> 1]
      ELSE LET k == CHOOSE k \in 1..Precision :
                        m[k] = 0 /\ \A j \in (k + 1)..Precision : m[j] = 1
           IN  [m |-> [i \in 1..Precision |-> IF i < k THEN m[i] ELSE IF i = k THEN 1 ELSE 0],
                carry |-> 0]

\* round to nearest, ties to even: digits (more than Precision of them) to
\* Precision digits
RoundToDouble(digits, sticky) ==
    LET m == SubSeq(digits, 1, Precision)
        half == digits[Precision + 1]
        more == sticky \/ \E i \in (Precision + 2)..Len(digits) : digits[i] = 1
    IN  IF half = 1 /\ (more \/ m[Precision] = 1)
          THEN Increment(m)
          ELSE [m |-> m, carry |-> 0]

\* the double c / t, for integers 0 < c <= t: the quotient's first
\* Precision + 1 significant digits, rounded
Divide(c, t) ==
    IF c = t
      THEN [m |-> [i \in 1..Precision |-> IF i = 1 THEN 1 ELSE 0], e |-> 0]
      ELSE LET first == CHOOSE k \in 1..t :
                            /\ QuotientDigit(c, k, t) = 1
                            /\ \A j \in 1..(k - 1) : QuotientDigit(c, j, t) = 0
               digits == [i \in 1..(Precision + 1) |-> QuotientDigit(c, first + i - 1, t)]
               r == RoundToDouble(digits, Remainder(c, first + Precision, t) # 0)
           IN  [m |-> r.m, e |-> r.carry - first]

\* the significand is multiplied in Limbs pieces of Width binary digits
Width == 13
Limbs == 5

RECURSIVE Limb(_, _, _)
\* the integer that digits q..(Width - 1) of the j-th piece of m are, the
\* pieces counted from the last digit of m
Limb(m, j, q) ==
    IF q = Width THEN 0
    ELSE LET p == Width * j + q
         IN  (IF p < Precision THEN m[Precision - p] ELSE 0) + 2 * Limb(m, j, q + 1)

RECURSIVE Times100Limbs(_, _, _)
\* the pieces of m * 100, the last piece first
Times100Limbs(m, j, carry) ==
    IF j = Limbs THEN <<>>
    ELSE LET v == Limb(m, j, 0) * 100 + carry
         IN  <<v % (2 ^ Width)>> \o Times100Limbs(m, j + 1, v \div (2 ^ Width))

\* the double x * 100
Times100(x) ==
    LET limbs == Times100Limbs(x.m, 0, 0)
        Digit(p) == (limbs[(p \div Width) + 1] \div (2 ^ (p % Width))) % 2
        top == CHOOSE p \in 0..(Width * Limbs - 1) :
                   Digit(p) = 1 /\ \A q \in (p + 1)..(Width * Limbs - 1) : Digit(q) = 0
        digits == [i \in 1..(top + 1) |-> Digit(top + 1 - i)]
        r == RoundToDouble(digits, FALSE)
    IN  [m |-> r.m, e |-> x.e + (top + 1 - Precision) + r.carry]

RECURSIVE IntegerPart(_, _)
\* the integer that the first n digits of m are
IntegerPart(m, n) == IF n <= 0 THEN 0 ELSE 2 * IntegerPart(m, n - 1) + m[n]

\* Math.round(y) of a double y < 2^Precision: floor(y + 1/2)
MathRound(y) ==
    IntegerPart(y.m, y.e + 1)
      + (IF y.e + 2 \in 1..Precision THEN y.m[y.e + 2] ELSE 0)

\* Math.round((capped / total) * 100), for total > 0
Percent(capped, total) ==
    IF capped = 0 THEN 0 ELSE MathRound(Times100(Divide(capped, total)))

\* Dashboard card: capped, and pct, which is rendered when total > 0
DashboardCard(r) ==
    LET capped == IF r.total > 0 THEN Min(r.count, r.total) ELSE r.count
        pct == IF r.total > 0 THEN Percent(capped, r.total) ELSE 0
    IN  [attended |-> capped, pct |-> IF r.total > 0 THEN <<pct>> ELSE <<>>]

\* Profile, My Subjects: the attended number, and pct, which is null when total is 0
ProfileCard(r) ==
    [attended |-> IF r.total > 0 THEN Min(r.count, r.total) ELSE r.count,
     pct |-> IF r.total > 0 THEN <<Percent(Min(r.count, r.total), r.total)>> ELSE <<>>]

\* what view v renders for its i-th row
Card(v, i) == IF kind[v] = "Profile" THEN ProfileCard(rows[v][i]) ELSE DashboardCard(rows[v][i])

(***************************************************************************)
(* Specification of the display: the student has one subject with any      *)
(* count and any total up to DisplayMax; the pages load and render it.     *)
(***************************************************************************)
InitDisplay ==
    /\ \E c \in 0..DisplayMax, t \in 0..DisplayMax :
          /\ attendance = {[id |-> i, student_id |-> "u1", subject |-> "ADA"] : i \in 1..c}
          /\ nextId = c + 1
          /\ attendance_totals =
                {[student_id |-> "u1", subject |-> "ADA", count |-> c, total |-> t]}
    /\ profiles = {[user_id |-> "u1", name |-> "Asha", selected_subjects |-> {"ADA"},
                   onboarding_complete |-> TRUE]}
    /\ InitViews
    /\ kind \in {k \in [Views -> Kinds] : k["v2"] = "Profile"}
    /\ prior = storage

NextDisplay ==
    \/ \E v \in Views : FetchTotalsA(v, TRUE)
    \/ \E v \in Views : FetchTotalsB(v, TRUE)
    \/ \E v \in Views : FetchEverything(v, TRUE)

SpecDisplay == InitDisplay /\ [][NextDisplay]_vars

(***************************************************************************)
(* The Auth page: sign in, or sign up with a name and chosen subjects.     *)
(***************************************************************************)
\* what a user types into the name input
NameTexts == {"Asha", " "}

\* a name that is not trimmed
TrimNone(n) == n

\* name.trim()
Trim(n) == IF n = " " THEN "" ELSE n

\* subjects_catalog.default_total of the catalog's subjects (c.default_total ?? 20)
CatalogDefaultTotal == MaxTotal

\* the variables of the pages
pageVars == <<kind, user, rows, attendanceRecords, markVars, pc, name, catalog,
              formVars, issued>>

\* the "Need an account? / Have an account?" link: setIsLogin(!isLogin)
ToggleLogin ==
    /\ authPc = "idle" /\ route = "/auth"
    /\ isLogin' = ~isLogin
    /\ toast' = NoToast
    /\ prior' = storage
    /\ call' = ""
    /\ trip' = TripKept
    /\ UNCHANGED <<attendance, attendance_totals, nextId, profiles, pending, pageVars,
                   loading, authPc, authName, chosen, subjectsLocked, pendingSetup,
                   route, authUser>>
    /\ UNCHANGED effectVars

\* onChange of the name input: setName(e.target.value)
TypeName(n) ==
    /\ authPc = "idle" /\ route = "/auth"
    /\ ~isLogin
    /\ authName' = n
    /\ toast' = NoToast
    /\ prior' = storage
    /\ call' = ""
    /\ trip' = TripKept
    /\ UNCHANGED <<attendance, attendance_totals, nextId, profiles, pending, pageVars,
                   loading, authPc, isLogin, chosen, subjectsLocked, pendingSetup,
                   route, authUser>>
    /\ UNCHANGED effectVars

\* addSubject(c) of the Auth page, for a catalog subject that is not chosen yet
AuthAddSubject(c) ==
    /\ authPc = "idle" /\ route = "/auth"
    /\ ~isLogin
    /\ ~\E i \in 1..Len(chosen) : chosen[i].code = c
    /\ chosen' = IF subjectsLocked THEN chosen
                 ELSE Append(chosen, [code |-> c, total |-> CatalogDefaultTotal])
    /\ toast' = NoToast
    /\ prior' = storage
    /\ call' = ""
    /\ trip' = TripKept
    /\ UNCHANGED <<attendance, attendance_totals, nextId, profiles, pending, pageVars,
                   loading, authPc, isLogin, authName, subjectsLocked, pendingSetup,
                   route, authUser>>
    /\ UNCHANGED effectVars

\* what handleSubmit's sign-up validations answer: the toast title, "" to go on
CheckSignup ==
    IF Trim(authName) = "" THEN "Missing name"
    ELSE IF Len(chosen) = 0 THEN "Pick subjects"
    ELSE ""

\* handleSubmit up to its first await: setLoading(true), then signIn, or the
\* sign-up validations and signUp
HandleSubmit ==
    /\ authPc = "idle" /\ route = "/auth"
    /\ ~loading
    /\ IF isLogin
         THEN /\ call' = "signIn"
              /\ loading' = TRUE
              /\ authPc' = "signIn"
              /\ toast' = NoToast
         ELSE IF CheckSignup # ""
           THEN /\ call' = ""
                /\ toast' = <<"auth", "handleSubmit", CheckSignup, "">>
                /\ UNCHANGED <<loading, authPc>>
           ELSE /\ call' = "signUp"
                /\ loading' = TRUE
                /\ authPc' = "signUp"
                /\ toast' = NoToast
    /\ prior' = storage
    /\ trip' = TripKept
    /\ UNCHANGED <<attendance, attendance_totals, nextId, profiles, pending, pageVars,
                   isLogin, authName, chosen, subjectsLocked, pendingSetup, route,
                   authUser>>
    /\ UNCHANGED effectVars

\* the reply of signIn for the account u: navigate('/dashboard') and return,
\* or the error is thrown; then the finally block.  useAuth() has a new user,
\* for which the page's effects are due
SignInReply(ok, u) ==
    /\ authPc = "signIn"
    /\ IF ok
         THEN /\ authUser' = u
              /\ effectDue' = TRUE
              /\ route' = "/dashboard"
              /\ toast' = NoToast
         ELSE /\ toast' = <<"auth", "handleSubmit", "Error", "AuthError">>
              /\ UNCHANGED <<authUser, effectDue, route>>
    /\ loading' = FALSE
    /\ authPc' = "idle"
    /\ prior' = storage
    /\ call' = ""
    /\ trip' = TripKept
    /\ UNCHANGED <<attendance, attendance_totals, nextId, profiles, pending, pageVars,
                   isLogin, authName, chosen, subjectsLocked, pendingSetup>>
    /\ UNCHANGED <<authKind, runs, onboard>>

\* chosen.map(s => s.code) as the set of codes
ChosenCodes == {chosen[i].code : i \in 1..Len(chosen)}

\* the pending-setup record: { name: name.trim(), codes, totals }
PendingRecord ==
    [name |-> Trim(authName),
     codes |-> [i \in 1..Len(chosen) |-> chosen[i].code],
     totals |-> [i \in 1..Len(chosen) |-> chosen[i].total]]

\* the reply of signUp, which made the account u and, when the project asks
\* for no email confirmation (session), signed it in.  The variant that
\* always defers stores the record, locks the selection and ends here
SignUpReply(ok, u, session) ==
    /\ authPc = "signUp"
    /\ IF ok
         THEN /\ authUser' = IF session THEN u ELSE authUser
              /\ effectDue' = IF session THEN TRUE ELSE effectDue
              /\ onboard' = [owner |-> u, immediate |-> 0, deferred |-> 0]
              /\ IF authKind = "AuthA"
                   THEN /\ authPc' = "getUser"
                        /\ toast' = NoToast
                        /\ UNCHANGED <<loading, pendingSetup, subjectsLocked>>
                   ELSE /\ pendingSetup' = <<PendingRecord>>
                        /\ toast' = <<"auth", "handleSubmit", "Verify your email", "">>
                        /\ subjectsLocked' = TRUE
                        /\ loading' = FALSE
                        /\ authPc' = "idle"
         ELSE /\ toast' = <<"auth", "handleSubmit", "Error", "AuthError">>
              /\ loading' = FALSE
              /\ authPc' = "idle"
              /\ UNCHANGED <<authUser, effectDue, onboard, pendingSetup, subjectsLocked>>
    /\ prior' = storage
    /\ call' = ""
    /\ trip' = TripKept
    /\ UNCHANGED <<attendance, attendance_totals, nextId, profiles, pending, pageVars,
                   isLogin, authName, chosen, route>>
    /\ UNCHANGED <<authKind, runs>>

\* await supabase.auth.getUser(): without a user id the setup is deferred, the
\* record is stored, the selection is locked and the handler ends
GetUser(ok) ==
    /\ authPc = "getUser"
    /\ LET userId == IF ok THEN authUser ELSE ""
       IN IF userId # ""
            THEN /\ authPc' = "profile"
                 /\ toast' = NoToast
                 /\ UNCHANGED <<pendingSetup, subjectsLocked, loading>>
            ELSE /\ pendingSetup' = <<PendingRecord>>
                 /\ toast' = <<"auth", "handleSubmit", "Verify your email", "">>
                 /\ subjectsLocked' = TRUE
                 /\ loading' = FALSE
                 /\ authPc' = "idle"
    /\ prior' = storage
    /\ call' = "getUser"
    /\ trip' = TripKept
    /\ UNCHANGED <<attendance, attendance_totals, nextId, profiles, pending, pageVars,
                   isLogin, authName, chosen, route, authUser>>
    /\ UNCHANGED effectVars

\* from('profiles').upsert({user_id, name, selected_subjects, onboarding_complete: true})
UpsertOnboarded(uid, n, subs) ==
    {p \in profiles : p.user_id # uid} \cup
      {[user_id |-> uid, name |-> n, selected_subjects |-> subs, onboarding_complete |-> TRUE]}

\* handleSubmit, email confirmation off: the profiles upsert
SubmitProfile(ok) ==
    /\ authPc = "profile"
    /\ IF ok
         THEN /\ profiles' = UpsertOnboarded(authUser, Trim(authName), ChosenCodes)
              /\ authPc' = "totals"
              /\ toast' = NoToast
              /\ onboard' = [onboard EXCEPT !.immediate = @ + 1]
              /\ UNCHANGED loading
         ELSE /\ toast' = <<"auth", "handleSubmit", "Error", "StorageUnavailable">>
              /\ loading' = FALSE
              /\ authPc' = "idle"
              /\ UNCHANGED <<profiles, onboard>>
    /\ prior' = storage
    /\ call' = "upsert_profiles"
    /\ trip' = TripKept
    /\ UNCHANGED <<attendance, attendance_totals, nextId, pending, pageVars,
                   isLogin, authName, chosen, subjectsLocked, pendingSetup, route,
                   authUser>>
    /\ UNCHANGED <<authKind, effectDue, runs>>

\* set_subject_totals(p_subjects, p_totals): the caller's row of every given
\* subject gets the given total; it is created, with count 0, when missing
SetSubjectTotals(uid, list) ==
    {r \in attendance_totals :
        ~(r.student_id = uid /\ \E i \in 1..Len(list) : list[i].code = r.subject)}
    \cup {[student_id |-> uid, subject |-> list[i].code,
           count |-> IF HasTotals(uid, list[i].code)
                       THEN StoredRow(uid, list[i].code).count ELSE DefaultCount,
           total |-> list[i].total] : i \in 1..Len(list)}

\* handleSubmit, email confirmation off: the totals RPC, whose error is shown
\* and not thrown, then navigate('/dashboard') and the finally block
SubmitTotals(ok) ==
    /\ authPc = "totals"
    /\ IF ok
         THEN /\ attendance_totals' = SetSubjectTotals(authUser, chosen)
              /\ pending' = Notify(authUser, {<<"attendance_totals", "INSERT">>})
              /\ toast' = <<"auth", "handleSubmit", "Account created", "">>
              /\ trip' = NoTrip
         ELSE /\ toast' = <<"auth", "handleSubmit", "Subject setup failed", "StorageUnavailable">>
              /\ trip' = TripKept
              /\ UNCHANGED <<attendance_totals, pending>>
    /\ route' = "/dashboard"
    /\ loading' = FALSE
    /\ authPc' = "idle"
    /\ prior' = storage
    /\ call' = "set_subject_totals"
    /\ UNCHANGED <<attendance, nextId, profiles, pageVars, isLogin, authName, chosen,
                   subjectsLocked, pendingSetup, authUser>>
    /\ UNCHANGED effectVars

(***************************************************************************)
(* The Auth page: the effects that depend on [user], and the events that   *)
(* mount the page.  An onboarding effect that has started runs to its end  *)
(* whatever the page does meanwhile.                                       *)
(***************************************************************************)
\* onboarding effects running at the same time
MaxRuns == 2

\* removeSubject(code), unguarded
RemoveSubjectUnlocked(code) == SelectSeq(chosen, LAMBDA s : s.code # code)

\* removeSubject(code): the chosen list it leaves
RemoveSubject(code) ==
    IF subjectsLocked THEN chosen ELSE SelectSeq(chosen, LAMBDA s : s.code # code)

\* updateTotal(code, value): the chosen list it leaves
UpdateChosenTotal(code, value) ==
    IF subjectsLocked THEN chosen
    ELSE [i \in 1..Len(chosen) |->
            IF chosen[i].code = code
              THEN [chosen[i] EXCEPT !.total =
                      IF Invalid(Number(value)) THEN 0 ELSE Floor(Number(value))]
              ELSE chosen[i]]

\* the X button of a chosen subject
AuthRemoveSubject(c) ==
    /\ authPc = "idle" /\ route = "/auth"
    /\ ~isLogin
    /\ \E i \in 1..Len(chosen) : chosen[i].code = c
    /\ chosen' = RemoveSubject(c)
    /\ toast' = NoToast
    /\ prior' = storage
    /\ call' = ""
    /\ trip' = TripKept
    /\ UNCHANGED <<attendance, attendance_totals, nextId, profiles, pending, pageVars,
                   loading, authPc, isLogin, authName, subjectsLocked, pendingSetup,
                   route, authUser>>
    /\ UNCHANGED effectVars

\* onChange of the total input of a chosen subject
AuthUpdateTotal(c, typed) ==
    /\ authPc = "idle" /\ route = "/auth"
    /\ ~isLogin
    /\ \E i \in 1..Len(chosen) : chosen[i].code = c
    /\ chosen' = UpdateChosenTotal(c, InputValue(typed))
    /\ toast' = NoToast
    /\ prior' = storage
    /\ call' = ""
    /\ trip' = TripKept
    /\ UNCHANGED <<attendance, attendance_totals, nextId, profiles, pending, pageVars,
                   loading, authPc, isLogin, authName, subjectsLocked, pendingSetup,
                   route, authUser>>
    /\ UNCHANGED effectVars

\* the Auth page is mounted anew: its state is what useState gives it
FreshAuthPage ==
    /\ isLogin' = TRUE
    /\ authName' = ""
    /\ chosen' = <<>>
    /\ subjectsLocked' = FALSE
    /\ loading' = FALSE
    /\ authPc' = "idle"
    /\ route' = "/auth"

\* the browser loads the application at /auth with the session of u: the
\* link of the verification email of the account that signed up, or a reload
\* by the user who is signed in.  localStorage is kept; no script of the
\* page before is running
LoadAuthPage(u) ==
    /\ authPc = "idle"
    /\ runs = <<>>
    /\ u # ""
    /\ u \in {authUser, onboard.owner}
    /\ FreshAuthPage
    /\ authUser' = u
    /\ effectDue' = TRUE
    /\ toast' = NoToast
    /\ prior' = storage
    /\ call' = ""
    /\ trip' = TripKept
    /\ UNCHANGED <<attendance, attendance_totals, nextId, profiles, pending, pageVars,
                   pendingSetup, authKind, runs, onboard>>

\* handleLogout of the Dashboard: signOut(), then navigate('/auth')
SignOut ==
    /\ authPc = "idle"
    /\ route = "/dashboard"
    /\ authUser # ""
    /\ FreshAuthPage
    /\ authUser' = ""
    /\ effectDue' = FALSE
    /\ toast' = NoToast
    /\ prior' = storage
    /\ call' = "signOut"
    /\ trip' = TripKept
    /\ UNCHANGED <<attendance, attendance_totals, nextId, profiles, pending, pageVars,
                   pendingSetup, authKind, runs, onboard>>

\* the first step of a run of the onboarding effect
FirstStep == IF authKind = "AuthA" THEN "profile" ELSE "rpc"

\* the effects of the Auth page run for a new user: without a pending
\* record the page redirects to the dashboard; with one, the onboarding
\* effect reads it and starts to commit it for this user
EffectStart ==
    /\ effectDue
    /\ authUser # ""
    /\ effectDue' = FALSE
    /\ IF pendingSetup = <<>>
         THEN /\ route' = "/dashboard"
              /\ UNCHANGED runs
         ELSE /\ Len(runs) < MaxRuns
              /\ runs' = Append(runs, [uid |-> authUser, data |-> pendingSetup[1],
                                       pc |-> FirstStep])
              /\ UNCHANGED route
    /\ toast' = NoToast
    /\ prior' = storage
    /\ call' = ""
    /\ trip' = TripKept
    /\ UNCHANGED <<attendance, attendance_totals, nextId, profiles, pending, pageVars,
                   loading, authPc, isLogin, authName, chosen, subjectsLocked,
                   pendingSetup, authUser, authKind, onboard>>

\* navigate('/dashboard') of handleSubmit unmounted the page before React
\* ran its effects for the user who signed in
EffectSkipped ==
    /\ effectDue
    /\ route = "/dashboard"
    /\ effectDue' = FALSE
    /\ toast' = NoToast
    /\ prior' = storage
    /\ call' = ""
    /\ trip' = TripKept
    /\ UNCHANGED <<attendance, attendance_totals, nextId, profiles, pending, pageVars,
                   loading, authPc, isLogin, authName, chosen, subjectsLocked,
                   pendingSetup, route, authUser, authKind, runs, onboard>>

\* the runs without the i-th, which has ended
Ended(i) == [j \in 1..Len(runs) - 1 |-> IF j < i THEN runs[j] ELSE runs[j + 1]]

\* the pairs of subject and total of a pending record
RecordList(data) ==
    [j \in 1..Len(data.codes) |-> [code |-> data.codes[j], total |-> data.totals[j]]]

\* data.codes as the set of codes
RecordCodes(data) == {data.codes[j] : j \in 1..Len(data.codes)}

\* the end of a run of the onboarding effect, on either path:
\* localStorage.removeItem(PENDING_KEY), navigate('/dashboard')
EndRun(i) ==
    /\ pendingSetup' = <<>>
    /\ route' = "/dashboard"
    /\ runs' = Ended(i)

\* a run of the onboarding effect, first variant: the profiles upsert for the
\* user the effect ran for
RunProfile(i, ok) ==
    /\ authKind = "AuthA"
    /\ i \in 1..Len(runs)
    /\ runs[i].pc = "profile"
    /\ IF ok
         THEN /\ profiles' = UpsertOnboarded(runs[i].uid, runs[i].data.name,
                                             RecordCodes(runs[i].data))
              /\ runs' = [runs EXCEPT ![i].pc = "totals"]
              /\ onboard' = [onboard EXCEPT !.deferred = @ + 1]
              /\ toast' = NoToast
              /\ UNCHANGED <<pendingSetup, route>>
         ELSE /\ toast' = <<"auth", "onboarding", "Setup failed", "StorageUnavailable">>
              /\ EndRun(i)
              /\ UNCHANGED <<profiles, onboard>>
    /\ prior' = storage
    /\ call' = "upsert_profiles"
    /\ trip' = TripKept
    /\ UNCHANGED <<attendance, attendance_totals, nextId, pending, pageVars,
                   loading, authPc, isLogin, authName, chosen, subjectsLocked,
                   authUser, authKind, effectDue>>

\* ... then the set_subject_totals RPC, which storage runs for the user of
\* the session at that time and rejects without one
RunTotals(i, ok) ==
    /\ authKind = "AuthA"
    /\ i \in 1..Len(runs)
    /\ runs[i].pc = "totals"
    /\ IF ok /\ authUser # ""
         THEN /\ attendance_totals' = SetSubjectTotals(authUser, RecordList(runs[i].data))
              /\ pending' = Notify(authUser, {<<"attendance_totals", "INSERT">>})
              /\ toast' = <<"auth", "onboarding", "Welcome!", "">>
              /\ trip' = NoTrip
         ELSE /\ toast' = <<"auth", "onboarding", "Setup failed", "StorageUnavailable">>
              /\ trip' = TripKept
              /\ UNCHANGED <<attendance_totals, pending>>
    /\ EndRun(i)
    /\ prior' = storage
    /\ call' = "set_subject_totals"
    /\ UNCHANGED <<attendance, nextId, profiles, pageVars,
                   loading, authPc, isLogin, authName, chosen, subjectsLocked,
                   authUser, authKind, effectDue, onboard>>

\* a run of the onboarding effect, second variant: getSession(), then the
\* complete_onboarding_v2 RPC with the user id of the session, which writes
\* the profile and the totals rows in one step
RunRpc(i, ok) ==
    /\ authKind = "AuthB"
    /\ i \in 1..Len(runs)
    /\ runs[i].pc = "rpc"
    /\ IF ok /\ authUser # ""
         THEN /\ profiles' = UpsertOnboarded(authUser, runs[i].data.name,
                                             RecordCodes(runs[i].data))
              /\ attendance_totals' = SetSubjectTotals(authUser, RecordList(runs[i].data))
              /\ pending' = Notify(authUser, {<<"attendance_totals", "INSERT">>})
              /\ onboard' = [onboard EXCEPT !.deferred = @ + 1]
              /\ toast' = <<"auth", "onboarding", "Welcome!", "">>
              /\ trip' = NoTrip
         ELSE /\ toast' = <<"auth", "onboarding", "Setup failed", "StorageUnavailable">>
              /\ trip' = TripKept
              /\ UNCHANGED <<profiles, attendance_totals, pending, onboard>>
    /\ EndRun(i)
    /\ prior' = storage
    /\ call' = "complete_onboarding_v2"
    /\ UNCHANGED <<attendance, nextId, pageVars,
                   loading, authPc, isLogin, authName, chosen, subjectsLocked,
                   authUser, authKind, effectDue>>

(***************************************************************************)
(* Specification of onboarding: one browser, with the Auth page of either  *)
(* variant.  The account u1 exists and has its rows; one account, u2, is   *)
(* signed up, with or without email confirmation.  The user may sign in as *)
(* either account, sign out, and load the page again; storage and the auth *)
(* service may reject any call.                                            *)
(***************************************************************************)
InitOnboard ==
    /\ attendance = {}
    /\ nextId = 1
    /\ attendance_totals =
          {[student_id |-> "u1", subject |-> "ADA", count |-> 0, total |-> MaxTotal]}
    /\ profiles = {[user_id |-> "u1", name |-> "Ravi", selected_subjects |-> {"ADA"},
                   onboarding_complete |-> TRUE]}
    /\ InitAuth
    /\ authKind \in AuthKinds
    /\ InitFormFields
    /\ InitViewFields
    /\ kind = [v \in Views |-> "Profile"]
    /\ prior = storage

\* the accounts one can sign in to
Accounts == {"u1", onboard.owner} \ {""}

NextOnboard ==
    \/ ToggleLogin
    \/ \E n \in NameTexts : TypeName(n)
    \/ \E c \in Subjects : AuthAddSubject(c)
    \/ \E c \in Subjects : AuthRemoveSubject(c)
    \/ \E c \in Subjects : AuthUpdateTotal(c, "2")
    \/ (isLogin \/ onboard.owner = "") /\ HandleSubmit
    \/ \E ok \in WriteOutcomes, u \in Accounts : SignInReply(ok, u)
    \/ \E ok \in WriteOutcomes, session \in BOOLEAN : SignUpReply(ok, "u2", session)
    \/ \E ok \in WriteOutcomes : GetUser(ok)
    \/ \E ok \in WriteOutcomes : SubmitProfile(ok)
    \/ \E ok \in WriteOutcomes : SubmitTotals(ok)
    \/ \E u \in Accounts : LoadAuthPage(u)
    \/ SignOut
    \/ EffectStart
    \/ EffectSkipped
    \/ \E i \in 1..MaxRuns, ok \in WriteOutcomes : RunProfile(i, ok)
    \/ \E i \in 1..MaxRuns, ok \in WriteOutcomes : RunTotals(i, ok)
    \/ \E i \in 1..MaxRuns, ok \in WriteOutcomes : RunRpc(i, ok)

SpecOnboard == InitOnboard /\ [][NextOnboard]_vars

(***************************************************************************)
(* Specification with fairness: two views of one student, of any kinds,    *)
(* who has the subject ADA, without a cap and not yet marked; storage      *)
(* serves every call.  A user may stop clicking at any time, but a fetch   *)
(* that a notification has asked for runs, and a call that a handler       *)
(* awaits returns.                                                         *)
(***************************************************************************)
InitLive ==
    /\ attendance = {}
    /\ nextId = 1
    /\ attendance_totals =
          {[student_id |-> "u1", subject |-> "ADA", count |-> 0, total |-> 0]}
    /\ profiles = {[user_id |-> "u1", name |-> "Asha", selected_subjects |-> {"ADA"},
                   onboarding_complete |-> TRUE]}
    /\ InitViews
    /\ kind \in KindChoices
    /\ prior = storage

NextLive ==
    \/ \E v \in Views : FetchTotalsA(v, TRUE)
    \/ \E v \in Views : FetchTotalsB(v, TRUE)
    \/ \E v \in Views : FetchEverything(v, TRUE)
    \/ \E v \in Views, s \in Subjects : OpenMarkModal(v, s)
    \/ \E v \in Views : ConfirmMarkA(v, TRUE)
    \/ \E v \in Views : UpdateCountA(v, TRUE)
    \/ \E v \in Views : RefetchA(v, TRUE)
    \/ \E v \in Views : ConfirmMarkB(v, TRUE)
    \/ \E v \in Views : ReplyB(v)
    \/ \E v \in Views, i \in 1..MaxLogs : RequestDeleteRecord(v, i)
    \/ \E v \in Views : HandleDeleteAttendance(v, TRUE)
    \/ \E v \in Views : RefetchP(v, TRUE)
    \/ \E v \in Editors, s \in Subjects : OpenEditTotal(v, s)
    \/ \E v \in Editors : TypeEditTotal(v, "2")
    \/ \E v \in Editors : SaveEditTotal(v, TRUE)
    \/ \E v \in Editors : RefetchEdit(v, TRUE)
    \/ \E v \in Editors, s \in Subjects : PickAddSubject(v, s)
    \/ \E v \in Editors : HandleAddSubject(v, TRUE)
    \/ \E v \in Editors : UpsertProfile(v, TRUE)
    \/ \E v \in Editors : RefetchAdd(v, TRUE)

\* the event loop runs a notified fetch, and storage answers an awaited call
Fairness ==
    \A v \in Views :
        /\ WF_vars(FetchTotalsA(v, TRUE))
        /\ WF_vars(FetchTotalsB(v, TRUE))
        /\ WF_vars(FetchEverything(v, TRUE))
        /\ WF_vars(UpdateCountA(v, TRUE))
        /\ WF_vars(RefetchA(v, TRUE))
        /\ WF_vars(ReplyB(v))
        /\ WF_vars(RefetchP(v, TRUE))
        /\ WF_vars(RefetchEdit(v, TRUE))
        /\ WF_vars(UpsertProfile(v, TRUE))
        /\ WF_vars(RefetchAdd(v, TRUE))

SpecLive == InitLive /\ [][NextLive]_vars /\ Fairness

(***************************************************************************)
(* Specification of the handlers' ends: a browser is on the Auth page,     *)
(* where u1 may sign in and u2 may sign up; once u1 is signed in, the page *)
(* the browser went to, of any kind, is used.  Storage and the auth        *)
(* service may reject any call, and answer every call.  u1 has marked ADA  *)
(* once.                                                                   *)
(***************************************************************************)
InitBusy ==
    /\ attendance = {[id |-> 1, student_id |-> "u1", subject |-> "ADA"]}
    /\ nextId = 2
    /\ attendance_totals =
          {[student_id |-> "u1", subject |-> "ADA", count |-> 1, total |-> 0]}
    /\ profiles = {[user_id |-> "u1", name |-> "Asha", selected_subjects |-> {"ADA"},
                   onboarding_complete |-> TRUE]}
    /\ InitViews
    /\ kind \in {k \in [Views -> Kinds] : \A v \in Views \ Editors : k[v] = "Profile"}
    /\ prior = storage

\* the page v is on screen: navigate('/dashboard') ran and useAuth() gives
\* the page's user (the handlers return at once without a user)
Mounted(v) == route = "/dashboard" /\ authUser = user[v]

NextBusy ==
    \/ \E v \in Editors : Mounted(v) /\ FetchTotalsA(v, TRUE)
    \/ \E v \in Editors : Mounted(v) /\ FetchTotalsB(v, TRUE)
    \/ \E v \in Editors : Mounted(v) /\ FetchEverything(v, TRUE)
    \/ \E v \in Editors, s \in Subjects : Mounted(v) /\ OpenMarkModal(v, s)
    \/ \E v \in Editors, ok \in WriteOutcomes : Mounted(v) /\ ConfirmMarkA(v, ok)
    \/ \E v \in Editors, ok \in WriteOutcomes : UpdateCountA(v, ok)
    \/ \E v \in Editors, ok \in WriteOutcomes : RefetchA(v, ok)
    \/ \E v \in Editors, ok \in WriteOutcomes : Mounted(v) /\ ConfirmMarkB(v, ok)
    \/ \E v \in Editors : ReplyB(v)
    \/ \E v \in Editors, i \in 1..MaxLogs : Mounted(v) /\ RequestDeleteRecord(v, i)
    \/ \E v \in Editors, ok \in WriteOutcomes : Mounted(v) /\ HandleDeleteAttendance(v, ok)
    \/ \E v \in Editors, ok \in WriteOutcomes : RefetchP(v, ok)
    \/ \E v \in Editors, s \in Subjects : Mounted(v) /\ OpenEditTotal(v, s)
    \/ \E v \in Editors, typed \in {"-1", "2"} : Mounted(v) /\ TypeEditTotal(v, typed)
    \/ \E v \in Editors, ok \in WriteOutcomes : Mounted(v) /\ SaveEditTotal(v, ok)
    \/ \E v \in Editors, ok \in WriteOutcomes : RefetchEdit(v, ok)
    \/ \E v \in Editors, s \in Subjects : Mounted(v) /\ PickAddSubject(v, s)
    \/ \E v \in Editors, ok \in WriteOutcomes : Mounted(v) /\ HandleAddSubject(v, ok)
    \/ \E v \in Editors, ok \in WriteOutcomes : UpsertProfile(v, ok)
    \/ \E v \in Editors, ok \in WriteOutcomes : RefetchAdd(v, ok)
    \/ ToggleLogin
    \/ TypeName("Asha")
    \/ AuthAddSubject("ADA")
    \/ HandleSubmit
    \/ \E ok \in WriteOutcomes : SignInReply(ok, "u1")
    \/ \E ok \in WriteOutcomes, session \in BOOLEAN : SignUpReply(ok, "u2", session)
    \/ \E ok \in WriteOutcomes : GetUser(ok)
    \/ \E ok \in WriteOutcomes : SubmitProfile(ok)
    \/ \E ok \in WriteOutcomes : SubmitTotals(ok)

\* every awaited call returns, with a result or with an error
Replies ==
    /\ \A v \in Views :
        /\ WF_vars(\E ok \in WriteOutcomes : UpdateCountA(v, ok))
        /\ WF_vars(\E ok \in WriteOutcomes : RefetchA(v, ok))
        /\ WF_vars(ReplyB(v))
        /\ WF_vars(\E ok \in WriteOutcomes : RefetchP(v, ok))
        /\ WF_vars(\E ok \in WriteOutcomes : RefetchEdit(v, ok))
        /\ WF_vars(\E ok \in WriteOutcomes : UpsertProfile(v, ok))
        /\ WF_vars(\E ok \in WriteOutcomes : RefetchAdd(v, ok))
    /\ WF_vars(\E ok \in WriteOutcomes : SignInReply(ok, "u1"))
    /\ WF_vars(\E ok \in WriteOutcomes, session \in BOOLEAN : SignUpReply(ok, "u2", session))
    /\ WF_vars(\E ok \in WriteOutcomes : GetUser(ok))
    /\ WF_vars(\E ok \in WriteOutcomes : SubmitProfile(ok))
    /\ WF_vars(\E ok \in WriteOutcomes : SubmitTotals(ok))

SpecBusy == InitBusy /\ [][NextBusy]_vars /\ Replies

(***************************************************************************)
(* Properties.                                                             *)
(***************************************************************************)
AllIdle == \A v \in Views : pc[v] = "idle"

\* C1: whenever no handler is running, the stored count of every totals row
\* equals the number of log rows stored for its student and subject.
CountEqualsLedger ==
    AllIdle => \A r \in attendance_totals : r.count = LogCount(r.student_id, r.subject)

\* C2: once the two racing marks have both completed (dialogs closed, no
\* handler running), the stored count of ADA is 2 and its ledger has 2 rows.
NoLostUpdate ==
    (AllIdle /\ \A v \in Views : ~isModalOpen[v])
        => CountOf("u1", "ADA") = 2 /\ LogCount("u1", "ADA") = 2

\* C3: every step of storage changes the ledger and the counter together: the
\* number of log rows of a subject and its stored count move by the same amount.
PairedWrites ==
    [][\A u \in Students, s \in Subjects :
          HasTotals(u, s) =>
              Cardinality({l \in attendance' : l.student_id = u /\ l.subject = s})
                    - LogCount(u, s)
                = (CHOOSE r \in attendance_totals' : r.student_id = u /\ r.subject = s).count
                    - CountOf(u, s)]_vars

\* C4: when a mark ends in an error after its insert was served, the ledger
\* and the stored count are what they were before the call.
NoPartialFailure ==
    trip.stage = "failed" =>
        /\ attendance = trip.ledger
        /\ CountOf(user[trip.view], trip.subject) = trip.count

\* C5: no log row is inserted while the stored row of its subject is at its
\* cap, and no step raises a stored count above a positive total.
NoMarkBeyondCap ==
    [][/\ \A l \in attendance' \ attendance :
             LET r == StoredRow(l.student_id, l.subject)
             IN  ~(r.total > 0 /\ r.count >= r.total)
       /\ \A r \in attendance_totals' :
             r.count > CountOf(r.student_id, r.subject) => r.total = 0 \/ r.count <= r.total]_vars

\* C10: a mark followed by the delete of the log row it created, with no
\* other write in between, leaves the ledger and the stored count of the
\* subject as they were before the mark.
RoundTrip ==
    trip.stage = "deleted" =>
        /\ attendance = trip.ledger
        /\ CountOf(user[trip.view], trip.subject) = trip.count

\* the step is view v's handleConfirmMark (the only step that takes a
\* Dashboard with the mark dialog open out of "idle" or closes the dialog)
ConfirmStep(v) ==
    /\ kind[v] \in {"DashA", "DashB"}
    /\ pc[v] = "idle" /\ isModalOpen[v]
    /\ ~(pc'[v] = "idle" /\ isModalOpen'[v])

NotConfiguredEnforcement ==
    [][\A v \in Views :
          (ConfirmStep(v) /\ ~HasRow(rows[v], selectedSubject[v]))
          => /\ toast' = <<v, "handleConfirmMark", "Not configured", "">>
             /\ pc'[v] = "idle"
             /\ call' = ""
             /\ UNCHANGED <<attendance, attendance_totals, nextId>>]_vars

\* stored count of a subject before the last step, -1 without a totals row
PriorCount(uid, s) ==
    IF \E r \in prior[2] : r.student_id = uid /\ r.subject = s
      THEN (CHOOSE r \in prior[2] : r.student_id = uid /\ r.subject = s).count
      ELSE -1

\* C8: every stored count is >= 0, and a served delete removes exactly the
\* selected log row and, when the stored count of its subject was 0, leaves
\* that count 0.
FloorEnforcement ==
    /\ \A r \in attendance_totals : r.count >= 0
    /\ toast[2] = "handleDeleteAttendance" /\ toast[3] = "Deleted"
        => /\ Cardinality(prior[1] \ attendance) = 1
           /\ attendance \subseteq prior[1]
           /\ \A l \in prior[1] \ attendance :
                 PriorCount(l.student_id, l.subject) = 0 => CountOf(l.student_id, l.subject) = 0

\* a log row of a subject whose stored count was already 0 has just been deleted
FloorWitness ==
    /\ toast[2] = "handleDeleteAttendance" /\ toast[3] = "Deleted"
    /\ \E l \in prior[1] \ attendance :
          /\ PriorCount(l.student_id, l.subject) = 0
          /\ CountOf(l.student_id, l.subject) = 0

\* the step is view v's handleDeleteAttendance
DeleteStep(v) ==
    /\ kind[v] = "Profile"
    /\ pc[v] = "idle" /\ deleteDialogOpen[v]
    /\ toast'[1] = v /\ toast'[2] = "handleDeleteAttendance"

\* C9: handleDeleteAttendance on a selected record whose log row is no longer
\* stored ends in an error (NotFound when storage serves the call) and leaves
\* the ledger and every totals row unchanged.
DeleteNotFound ==
    [][\A v \in Views :
          (DeleteStep(v) /\ ~\E l \in attendance : l.id = selectedRecord[v].id)
          => /\ toast'[3] = "Error"
             /\ toast'[4] \in {"NotFound", "StorageUnavailable"}
             /\ UNCHANGED <<attendance, attendance_totals>>]_vars

\* a delete was refused because the selected record was already gone
DeleteNotFoundWitness ==
    \E v \in Views :
        /\ toast = <<v, "handleDeleteAttendance", "Error", "NotFound">>
        /\ selectedRecord[v] # NoRecord
        /\ ~\E l \in attendance : l.id = selectedRecord[v].id
        /\ prior = storage

\* a step of handleAddSubject of view v from its start
AddStep(v) ==
    /\ kind[v] = "Profile"
    /\ pc[v] = "idle"
    /\ \/ pc'[v] = "addProfile"
       \/ toast'[1] = v /\ toast'[2] = "handleAddSubject"

\* C13: handleAddSubject for a subject that has a stored totals row of the
\* student (whether or not the view's rows show it) is refused: the handler
\* ends with an error shown and every totals row is left as it was.
AddExistingRefused ==
    [][\A v \in Views :
          (AddStep(v) /\ addSubject[v] # "" /\ HasTotals(user[v], addSubject[v]))
          => /\ pc'[v] = "idle"
             /\ toast'[3] \in {"Error", "Invalid total"}
             /\ attendance_totals' = attendance_totals]_vars

\* the total of a row that holds the integer part of the content t of an input
IsFloorOf(n, t) == 2 * n <= Number(t).halves /\ Number(t).halves < 2 * n + 2

\* C14: a served handleAddSubject for a subject without a stored row of the
\* student adds exactly one row, with count 0 and total the integer part of
\* the typed total; the ledger and every other totals row are unchanged; the
\* subject the form holds is always a code of the catalog.
AddCreatesRow ==
    [][\A v \in Views :
          /\ addSubject'[v] # "" => addSubject'[v] \in {Catalog[i] : i \in DOMAIN Catalog}
          /\ (AddStep(v) /\ pc'[v] = "addProfile" /\ ~HasTotals(user[v], addSubject[v]))
             => /\ attendance' = attendance
                /\ attendance_totals \subseteq attendance_totals'
                /\ \E r \in attendance_totals' :
                      /\ attendance_totals' \ attendance_totals = {r}
                      /\ r.student_id = user[v] /\ r.subject = addSubject[v]
                      /\ r.count = 0
                      /\ IsFloorOf(r.total, addTotal[v])]_vars

AddCreatesRowWitness ==
    \E v \in Views :
        /\ pc[v] = "addProfile"
        /\ addTotal[v] = "1.5"
        /\ attendance # {}
        /\ ~\E r \in prior[2] : r.student_id = user[v] /\ r.subject = addSubject[v]
        /\ \E r \in attendance_totals :
              r.student_id = user[v] /\ r.subject = addSubject[v] /\ r.count = 0 /\ r.total = 1

\* a step of saveEditTotal of view v from its start
SaveStep(v) ==
    /\ pc[v] = "idle" /\ editOpen[v]
    /\ \/ pc'[v] = "editRefetch"
       \/ toast'[1] = v /\ toast'[2] = "saveEditTotal"

\* C15: a served saveEditTotal, in every page, changes the total of the row
\* of (user, editingSubject) alone: every count, every other row and the
\* ledger are unchanged, also when the new total is below the row's count.
SaveOverwritesTotalOnly ==
    [][\A v \in Views :
          (SaveStep(v) /\ pc'[v] = "editRefetch")
          => /\ attendance' = attendance
             /\ Cardinality(attendance_totals') = Cardinality(attendance_totals)
             /\ \A r \in attendance_totals : \E q \in attendance_totals' :
                   /\ q.student_id = r.student_id /\ q.subject = r.subject
                   /\ q.count = r.count
                   /\ IF r.student_id = user[v] /\ r.subject = editingSubject[v]
                        THEN IsFloorOf(q.total, editingTotalValue[v])
                        ELSE q.total = r.total]_vars

SaveOverwritesTotalOnlyWitness ==
    \E v \in Views :
        /\ toast = <<v, "saveEditTotal", "Saved", "">>
        /\ attendance # {}
        /\ \E r \in attendance_totals, q \in prior[2] :
              /\ q.student_id = r.student_id /\ q.subject = r.subject
              /\ q.total # r.total
              /\ r.total > 0 /\ r.count > r.total

\* the content of an input that is the text of an integer >= 0
IsTotalText(t) == t \in DOMAIN Numerals /\ Numerals[t] >= 0 /\ Numerals[t] % 2 = 0

\* C16: saveEditTotal accepts the text of an integer >= 0 only: on any other
\* content of the input (empty, negative, with a fraction) it shows the
\* "Invalid" toast, issues no storage call and leaves storage unchanged.
InvalidValueRefused ==
    [][\A v \in Views :
          (SaveStep(v) /\ ~IsTotalText(editingTotalValue[v]))
          => /\ toast' = <<v, "saveEditTotal", InvalidTitle(v), "">>
             /\ call' = ""
             /\ attendance_totals' = attendance_totals
             /\ attendance' = attendance]_vars

\* C17: every step of a page reads and writes rows of the page's
\* authenticated user only: each totals row, log row and profile a step adds,
\* removes or changes has the student id of the user of the page whose
\* handler took the step, and the rows and records a fetch loads into a page
\* are stored rows of that page's user.
OwnRowsOnly ==
    [][/\ \A r \in (attendance_totals' \ attendance_totals) \cup (attendance_totals \ attendance_totals') :
             \E v \in Views : pc'[v] # pc[v] /\ r.student_id = user[v]
       /\ \A l \in (attendance' \ attendance) \cup (attendance \ attendance') :
             \E v \in Views : pc'[v] # pc[v] /\ l.student_id = user[v]
       /\ \A p \in (profiles' \ profiles) \cup (profiles \ profiles') :
             \E v \in Views : pc'[v] # pc[v] /\ p.user_id = user[v]
       /\ \A v \in Views :
             call' = "select" =>
               /\ rows'[v] # rows[v] =>
                     \A i \in 1..Len(rows'[v]) : \E r \in attendance_totals :
                         /\ r.student_id = user[v] /\ r.subject = rows'[v][i].subject
                         /\ r.count = rows'[v][i].count /\ r.total = rows'[v][i].total
               /\ attendanceRecords'[v] # attendanceRecords[v] =>
                     \A i \in 1..Len(attendanceRecords'[v]) : \E l \in attendance :
                         /\ l.student_id = user[v] /\ l.id = attendanceRecords'[v][i].id]_vars

OwnRowsOnlyWitness ==
    /\ \E l \in attendance : l.student_id = "u1"
    /\ \E l \in attendance : l.student_id = "u2"
    /\ \E r \in attendance_totals : r.student_id = "u1" /\ r.count > 0
    /\ \A v \in Views : Len(rows[v]) > 0 /\ pc[v] = "idle"
    /\ rows["v1"] # rows["v2"]

\* 100 * c / t rounded to the nearest integer, a half upwards
RoundedPercent(c, t) == (200 * c + t) \div (2 * t)

\* C18: every rendered row shows capped = min(count, total) when total > 0
\* and count otherwise, and the percentage round(100 * capped / total) when
\* total > 0 and none otherwise; the shown count is at most total, the
\* percentage is in 0..100, and the Dashboard card and the Profile card of
\* the row show the same values.
DisplayProjection ==
    \A v \in Views : \A i \in 1..Len(rows[v]) :
        LET r == rows[v][i]
            capped == IF r.total > 0 THEN Min(r.count, r.total) ELSE r.count
        IN  /\ Card(v, i).attended = capped
            /\ Card(v, i).pct = IF r.total > 0 THEN <<RoundedPercent(capped, r.total)>> ELSE <<>>
            /\ r.total > 0 => /\ Card(v, i).attended <= r.total
                              /\ Card(v, i).pct[1] \in 0..100
            /\ DashboardCard(r) = ProfileCard(r)

\* the view's rows, and Profile's log list, are what storage holds
Fresh(v) ==
    /\ rows[v] = QueryTotals(user[v])
    /\ kind[v] = "Profile" => attendanceRecords[v] = QueryLogs(user[v])

\* C11: every mutation notifies every open view of the student, whose fetch
\* then runs: from some time on (the mutations have stopped) the rows of
\* every view, and the log list of every Profile, equal the stored rows.
ViewsConverge == <>[](\A v \in Views : Fresh(v))

\* C12: the optimistic patch of the RPC variant is provisional: from some
\* time on every Dashboard of the RPC variant shows, for every subject, the
\* stored count, however its RPC reply and its notified fetch were ordered.
PatchIsProvisional ==
    <>[](\A v \in Views : kind[v] = "DashB" =>
            \A i \in 1..Len(rows[v]) :
                /\ HasTotals(user[v], rows[v][i].subject)
                /\ rows[v][i].count = StoredRow(user[v], rows[v][i].subject).count)

\* an awaited step of handleConfirmMark returns to the page, or its first
\* step ends at once
MarkEnds(v) ==
    /\ kind[v] \in {"DashA", "DashB"}
    /\ pc'[v] = "idle"
    /\ \/ pc[v] \in {"update", "refetch", "reply"}
       \/ toast'[1] = v /\ toast'[2] = "handleConfirmMark"

\* C19: every handler that is waiting for a call comes back to the page; when
\* no handler of a page runs, its flags saving, editSaving and adding are
\* false, and loading is false when handleSubmit does not run; every end of
\* handleConfirmMark leaves the mark dialog closed and no subject selected.
HandlersEnd ==
    /\ \A v \in Views : (pc[v] # "idle") ~> (pc[v] = "idle")
    /\ (authPc # "idle") ~> (authPc = "idle")
    /\ [](\A v \in Views : pc[v] = "idle" => ~saving[v] /\ ~editSaving[v] /\ ~adding[v])
    /\ [](authPc = "idle" => ~loading)
    /\ [][\A v \in Views : MarkEnds(v) =>
              ~isModalOpen'[v] /\ selectedSubject'[v] = NoSubject]_vars

\* a mark that storage rejected has ended: the flag is down, the dialog closed
HandlersEndWitness ==
    \E v \in Views :
        /\ toast = <<v, "handleConfirmMark", "Error", "StorageUnavailable">>
        /\ pc[v] = "idle"
        /\ ~saving[v]
        /\ ~isModalOpen[v]
        /\ selectedSubject[v] = NoSubject

\* the storage mutations of the handlers
Mutations ==
    {"insert", "update", "increment_attendance_total", "delete_log_and_decrement",
     "update_total", "upsert_totals"}

\* the step is one of the page v
StepOf(v) == pc'[v] # pc[v] \/ toast'[1] = v

\* C20: a handler issues no storage mutation that it has already issued since
\* it started, and a step that reports an error of a storage mutation ends
\* its handler, storage unchanged.
NoRetry ==
    [][\A v \in Views :
          (StepOf(v) /\ call' \in Mutations) =>
              /\ \A i \in 1..Len(issued[v]) : issued[v][i] # call'
              /\ toast'[3] = "Error" =>
                    /\ toast'[1] = v
                    /\ pc'[v] = "idle"
                    /\ storage' = storage]_vars

\* the count update of a mark was rejected after its insert: the handler
\* has ended with the error shown
NoRetryWitness ==
    \E v \in Views :
        /\ call = "update"
        /\ toast = <<v, "handleConfirmMark", "Error", "StorageUnavailable">>
        /\ pc[v] = "idle"
        /\ issued[v] = <<>>

\* the place of a subject code in ascending code order
Rank(s) == CHOOSE i \in 1..Len(Catalog) : Catalog[i] = s

\* a fetch of the page v has replied in this step
FetchStep(v) ==
    /\ call' = "select"
    /\ \/ pending[v] /\ ~pending'[v]
       \/ pc'[v] # pc[v]

\* C21: every fetch leaves the stored tables as they were, and a fetch that
\* storage served leaves the page's rows in ascending subject order, one row
\* for each stored totals row of the page's student, with its count and total.
ListTotalsSorted ==
    [][\A v \in Views :
          FetchStep(v) =>
              /\ storage' = storage
              /\ profiles' = profiles
              /\ toast'[3] # "Error" =>
                    /\ \A i \in 1..Len(rows'[v]) - 1 :
                          Rank(rows'[v][i].subject) < Rank(rows'[v][i + 1].subject)
                    /\ Len(rows'[v]) = Cardinality(TotalsOf(user[v]))
                    /\ \A i \in 1..Len(rows'[v]) :
                          /\ HasTotals(user[v], rows'[v][i].subject)
                          /\ rows'[v][i].count = StoredRow(user[v], rows'[v][i].subject).count
                          /\ rows'[v][i].total = StoredRow(user[v], rows'[v][i].subject).total]_vars

\* a fetch has loaded the rows of two subjects, ADA before CN
ListTotalsSortedWitness ==
    \E v \in Views :
        /\ call = "select"
        /\ toast = NoToast
        /\ ~pending[v]
        /\ Len(rows[v]) = 2
        /\ rows[v][1].subject = "ADA"
        /\ rows[v][2].subject = "CN"
        /\ Cardinality(TotalsOf(user[v])) = 2

\* neither handleSubmit nor an onboarding effect is between two calls
AuthQuiet == authPc = "idle" /\ runs = <<>>

\* C22: when no onboarding write is under way, every stored profile that is
\* marked onboarded has a totals row for each of its selected subjects.
OnboardingAtomic ==
    AuthQuiet =>
        \A p \in profiles :
            p.onboarding_complete =>
                \A s \in p.selected_subjects : HasTotals(p.user_id, s)

\* C23: every run of the onboarding effect ends with the pending record
\* removed and the browser on the dashboard, and the data of a sign-up is
\* committed by the effect at most once.
PendingCommittedOnce ==
    /\ [][Len(runs') < Len(runs) => pendingSetup' = <<>> /\ route' = "/dashboard"]_vars
    /\ [](onboard.deferred <= 1)

SubmitStep == authPc = "idle" /\ (authPc' # "idle" \/ toast'[2] = "handleSubmit")

\* C25: the data of a sign-up is written by handleSubmit or by the effect,
\* once in all; no onboarding write comes before a sign-up has succeeded; a
\* path that ends with its success message has written once; the variant
\* that always defers writes nothing in handleSubmit.
OnboardingWrittenOnce ==
    /\ [](onboard.immediate + onboard.deferred <= 1)
    /\ [][(storage' # storage \/ profiles' # profiles) => onboard.owner # ""]_vars
    /\ [][toast'[3] \in {"Account created", "Welcome!"} =>
            onboard'.immediate + onboard'.deferred = 1]_vars
    /\ []((authKind = "AuthB") => onboard.immediate = 0)

\* the name input is empty or holds white space only
BlankName == authName \in {"", " "}

\* C26: a sign-up submitted with a blank name or without a chosen subject
\* calls nothing, writes nothing, stores no pending record, locks nothing,
\* and leaves loading false.
SignupValidated ==
    [][(SubmitStep /\ ~isLogin /\ (BlankName \/ Len(chosen) = 0)) =>
          /\ call' = ""
          /\ authPc' = "idle"
          /\ ~loading'
          /\ pendingSetup' = pendingSetup
          /\ subjectsLocked' = subjectsLocked
          /\ storage' = storage
          /\ profiles' = profiles
          /\ onboard' = onboard]_vars

\* a sign-up with a name of white space was refused
SignupValidatedWitness ==
    /\ toast = <<"auth", "handleSubmit", "Missing name", "">>
    /\ authName = " "
    /\ Len(chosen) > 0
    /\ ~loading

\* C28: an onboarding effect writes the data of the pending record only into
\* the profile and the totals rows of the account whose sign-up stored it.
PendingForOwnAccount ==
    [][(runs' # runs /\ Len(runs') <= Len(runs)) =>
          /\ \A p \in profiles' \ profiles : p.user_id = onboard.owner
          /\ \A r \in attendance_totals' \ attendance_totals :
                r.student_id = onboard.owner]_vars


\* the step is the reply of view v's increment_attendance_total RPC
ReplyStep(v) ==
    /\ kind[v] = "DashB"
    /\ pc[v] = "reply" /\ pc'[v] = "idle"

\* C27: in the RPC variant, when the RPC of a mark has returned without error
\* and the view's row of the marked subject passes the cap check (total = 0, or
\* count < total), the optimistic update sets that row's count to its previous
\* count + 1 and changes no other row.
OptimisticPatch ==
    [][\A v \in Views :
          (/\ ReplyStep(v)
           /\ HasRow(rows[v], selectedSubject[v])
           /\ ~AtCap(LocalRow(v)))
          => /\ Len(rows'[v]) = Len(rows[v])
             /\ \A i \in 1..Len(rows[v]) :
                   rows'[v][i] =
                      IF rows[v][i].subject = selectedSubject[v]
                        THEN [rows[v][i] EXCEPT !.count = rows[v][i].count + 1]
                        ELSE rows[v][i]]_vars


\* the step is a storage call of view v's handleConfirmMark
MarkCallStep(v) ==
    \/ ConfirmStep(v)
    \/ kind[v] = "DashA" /\ pc[v] = "update" /\ pc'[v] # "update"

\* student, subject and total of every stored totals row
StoredTotals == {<<r.student_id, r.subject, r.total>> : r \in attendance_totals}

\* the rows of st = <<log rows, totals rows>> that are not of subject s of
\* student uid
OtherRows(st, uid, s) ==
    <<{l \in st[1] : ~(l.student_id = uid /\ l.subject = s)},
      {r \in st[2] : ~(r.student_id = uid /\ r.subject = s)}>>

\* C29: a mark and a delete never change the total of any totals row (nor add
\* or remove a totals row), and a mark of subject X or a delete of a record of
\* subject X leaves the log rows and the totals rows of every other subject
\* as they were.
FrameOfMarkAndDelete ==
    [][\A v \in Views :
          /\ (MarkCallStep(v) \/ DeleteStep(v)) => StoredTotals' = StoredTotals
          /\ MarkCallStep(v)
               => OtherRows(storage', user[v], selectedSubject[v])
                     = OtherRows(storage, user[v], selectedSubject[v])
          /\ DeleteStep(v)
               => OtherRows(storage', user[v], selectedRecord[v].subject)
                     = OtherRows(storage, user[v], selectedRecord[v].subject)]_vars

\* a mark or a delete has just changed the stored count of one subject while
\* the student has a totals row of another subject
FrameOfMarkAndDeleteWitness ==
    /\ toast[2] \in {"handleConfirmMark", "handleDeleteAttendance"}
    /\ toast[3] \in {"Marked!", "Deleted"}
    /\ prior[2] # attendance_totals
    /\ Cardinality(TotalsOf("u1")) >= 2


\* C30: a handleConfirmMark that ends in "Max reached", "Not configured" or
\* "Error" leaves the rows of its view as they were; a step of
\* handleConfirmMark changes the rows of its view only in the RPC variant,
\* after the RPC returned without error, on the step that shows "Marked!".
FailedMarkKeepsRows ==
    [][\A v \in Views :
          /\ (/\ MarkCallStep(v)
              /\ toast'[1] = v
              /\ toast'[3] \in {"Max reached", "Not configured", "Error"})
               => rows'[v] = rows[v] /\ pc'[v] = "idle"
          /\ (/\ toast'[1] = v /\ toast'[2] = "handleConfirmMark"
              /\ rows'[v] # rows[v])
               => ReplyStep(v) /\ toast'[3] = "Marked!" /\ call' = ""]_vars

\* a mark of a subject below its cap has just been rejected by storage
FailedMarkKeepsRowsWitness ==
    \E v \in Views :
        /\ toast = <<v, "handleConfirmMark", "Error", "StorageUnavailable">>
        /\ kind[v] = "DashB"
        /\ \E i \in 1..Len(rows[v]) : rows[v][i].total > 0 /\ rows[v][i].count < rows[v][i].total

====
